---- MODULE Spec2Model ----
(***************************************************************************)
(* A model of the ROE Analyzer's extraction engine: the rate limiter (both *)
(* the CommonJS limiter with waitForSlot and the Next.js route's limiter   *)
(* with acquire), the tag resolver, the period selector, the ROE           *)
(* calculator and the batch orchestrator.                                  *)
(***************************************************************************)
EXTENDS Integers, Sequences, FiniteSets, TLC

VARIABLES
    clock,      \* Date.now(), in milliseconds
    limiters,   \* instance id -> the fields of one RateLimiter object
    callers,    \* caller id -> where one acquire()/waitForSlot() call stands
    grantLog,   \* bookkeeping of the grants handed out (not program state)
    slack,      \* ticks spent idle or past a due timer (not program state)
    wiring      \* which limiter instance each constructed component holds

limVars == <<clock, limiters, callers, grantLog, slack, wiring>>

VARIABLES
    fnIn,       \* the arguments of one call of a pure function of the engine
    fnOut       \* what the call returned or threw; NotCalled before it

fnVars == <<fnIn, fnOut>>

VARIABLES
    proc,       \* the BatchROEProcessor and the position of its run
    net         \* caller id -> the HTTP request that follows the call's grant

batchVars == <<proc, net>>
nonLimVars == <<fnVars, batchVars>>
vars == <<limVars, nonLimVars>>

----------------------------------------------------------------------------
(* Rate limiter: program constants                                         *)

\* rateLimiter.js constructor
maxRequestsPerSecond == 10
delayBetweenRequests == 100
\* route.ts RateLimiter fields
maxRequests == 10
timeWindow == 1000
minDelay == 100

(* Bounds of the limiter model *)
NumCallers == 2       \* concurrent callers of one limiter
TickMs == 50          \* granularity of the clock
MaxTicks == 24        \* the clock stops after this many ticks
MaxSeqCalls == 30     \* calls of the strictly sequential caller
MaxSlack == 4         \* ticks in which a caller idles or a timer is late

NumRequests == 2      \* single-company requests served at the same time
MaxCompanies == 3     \* length of the master utility list

Callers == 1..NumCallers
Requests == 1..NumRequests
\* caller 1: the batch gate; 2, 3: the two fetches of the batch's calculator;
\* 2r+2, 2r+3: the two fetches of request r
\* in a batch run 2k, 2k+1: the two fetches of the k-th company
CallerIds == 1..(2 * NumRequests + 3) \cup 1..(2 * MaxCompanies + 1)
Insts == 1..(NumRequests + 2)
\* Date.now() is far from 0, the initial lastRequestTime
Epoch == 10 * timeWindow
MaxTime == Epoch + MaxTicks * TickMs

\* no batch processor constructed, no HTTP request made
NoProcessor == [pc |-> "none"]
NoNet == [c \in CallerIds |-> "none"]
NoBatch == proc = NoProcessor /\ net = NoNet

----------------------------------------------------------------------------
(* Helpers *)

NotCalled == [op |-> "none"]

RECURSIVE SeqMin(_)
SeqMin(s) ==
    IF Len(s) = 1 THEN s[1]
    ELSE LET m == SeqMin(Tail(s)) IN IF s[1] < m THEN s[1] ELSE m

\* requestTimes.filter(time => now - time < window)
FilterRecent(times, now, window) ==
    LET keep(t) == now - t < window IN SelectSeq(times, keep)


----------------------------------------------------------------------------
(* Rate limiter, CommonJS version (rateLimiter.js) *)

\* the literal window of waitForSlot
jsWindow == 1000

\* new RateLimiter()
NewLimiter(kind) ==
    [kind |-> kind, requestTimes |-> <<>>, lastRequestTime |-> 0]

NoLimiter == [kind |-> "none", requestTimes |-> <<>>, lastRequestTime |-> 0]

\* waitForSlot, "Record this request time": push and lastRequestTime
recordRequest(L, requestTime) ==
    [L EXCEPT !.requestTimes = Append(@, requestTime),
              !.lastRequestTime = requestTime]

\* a waitForSlot that records the request without the spacing sleep
waitForSlotUnspaced(L, now) ==
    LET kept == FilterRecent(L.requestTimes, now, jsWindow)
        L1 == [L EXCEPT !.requestTimes = kept]
        waitTime == jsWindow - (now - SeqMin(kept))
    IN  IF Len(kept) >= maxRequestsPerSecond /\ waitTime > 0
        THEN [lim |-> L1, pc |-> "sleepFull", wake |-> now + waitTime]
        ELSE [lim |-> recordRequest(L1, now), pc |-> "granted", wake |-> now]

\* waitForSlot from its entry to its first await, or to its return when it
\* does not have to wait. pc: where the call stands afterwards.
waitForSlot(L, now) ==
    LET kept == FilterRecent(L.requestTimes, now, jsWindow)
        L1 == [L EXCEPT !.requestTimes = kept]
        full == Len(kept) >= maxRequestsPerSecond
        waitTime == jsWindow - (now - SeqMin(kept))
        timeSinceLastRequest == now - L.lastRequestTime
    IN  IF full /\ waitTime > 0
        THEN [lim |-> L1, pc |-> "sleepFull", wake |-> now + waitTime]
        ELSE IF timeSinceLastRequest < delayBetweenRequests
        THEN [lim |-> L1, pc |-> "sleepGap",
              wake |-> now + (delayBetweenRequests - timeSinceLastRequest)]
        ELSE [lim |-> recordRequest(L1, now), pc |-> "granted", wake |-> now]

----------------------------------------------------------------------------
(* Rate limiter, route.ts version *)

\* acquire from its entry to its first await
acquire(L, now) ==
    LET kept == FilterRecent(L.requestTimes, now, timeWindow)
        L1 == [L EXCEPT !.requestTimes = kept]
    IN  IF Len(kept) >= maxRequests
        THEN [lim |-> L1, pc |-> "sleepFull",
              wake |-> now + (timeWindow - (now - SeqMin(kept)) + minDelay)]
        ELSE [lim |-> [L1 EXCEPT !.requestTimes = Append(@, now)],
              pc |-> "sleepMin", wake |-> now + minDelay]

\* the entry of the limiter, by the class of the instance
EnterLimiter(L, now) ==
    IF L.kind = "js" THEN waitForSlot(L, now) ELSE acquire(L, now)

----------------------------------------------------------------------------
(* Callers of the limiter and the clock *)

IdleCaller == [pc |-> "idle", wake |-> 0, inst |-> 0]

NoGrants == [count |-> 0, first |-> 0, last |-> 0, gap |-> -1]

\* one more grant, at time t
LogGrant(g, t) ==
    [count |-> g.count + 1,
     first |-> IF g.count = 0 THEN t ELSE g.first,
     last  |-> t,
     gap   |-> IF g.count = 0 THEN -1 ELSE t - g.last]

\* the call of caller c on instance i has run up to outcome r
Settle(c, i, r) ==
    /\ limiters' = [limiters EXCEPT ![i] = r.lim]
    /\ IF r.pc = "granted"
       THEN /\ callers' = [callers EXCEPT ![c] = IdleCaller]
            /\ grantLog' = LogGrant(grantLog, clock)
       ELSE /\ callers' = [callers EXCEPT ![c] = [pc |-> r.pc, wake |-> r.wake, inst |-> i]]
            /\ UNCHANGED grantLog

\* a caller invokes acquire() / waitForSlot() on instance i
Call(c, i) ==
    /\ callers[c].pc = "idle"
    /\ limiters[i].kind # "none"
    /\ Settle(c, i, EnterLimiter(limiters[i], clock))
    /\ UNCHANGED <<clock, slack, wiring, nonLimVars>>

\* the window was full: after the sleep the call starts over
WakeFull(c) ==
    /\ callers[c].pc = "sleepFull"
    /\ clock >= callers[c].wake
    /\ Settle(c, callers[c].inst, EnterLimiter(limiters[callers[c].inst], clock))
    /\ UNCHANGED <<clock, slack, wiring, nonLimVars>>

\* waitForSlot after the spacing sleep: records Date.now() and returns
WakeGap(c) ==
    /\ callers[c].pc = "sleepGap"
    /\ clock >= callers[c].wake
    /\ limiters' = [limiters EXCEPT ![callers[c].inst] = recordRequest(@, clock)]
    /\ callers' = [callers EXCEPT ![c] = IdleCaller]
    /\ grantLog' = LogGrant(grantLog, clock)
    /\ UNCHANGED <<clock, slack, wiring, nonLimVars>>

\* acquire after its closing sleep(minDelay): returns
WakeMin(c) ==
    /\ callers[c].pc = "sleepMin"
    /\ clock >= callers[c].wake
    /\ callers' = [callers EXCEPT ![c] = IdleCaller]
    /\ grantLog' = LogGrant(grantLog, clock)
    /\ UNCHANGED <<clock, limiters, slack, wiring, nonLimVars>>

\* Time passes. A tick is spare when one of the callers cs could have
\* called and did not, or when it takes the clock past a due timer; a run
\* has at most MaxSlack spare ticks.
TickSlack(cs, maxTime) ==
    LET spare == \/ \E c \in cs : callers[c].pc = "idle"
                 \/ \E c \in cs : callers[c].pc # "idle" /\ clock + TickMs > callers[c].wake
    IN  /\ clock + TickMs <= maxTime
        /\ spare => slack < MaxSlack
        /\ clock' = clock + TickMs
        /\ slack' = IF spare THEN slack + 1 ELSE slack
        /\ UNCHANGED <<limiters, callers, grantLog, wiring, nonLimVars>>

----------------------------------------------------------------------------
(* One shared limiter instance and NumCallers concurrent callers *)

\* gate: BatchROEProcessor.rateLimiter; client: the limiter of the SECApiClient
\* of BatchROEProcessor.roeExtractor; req[r]: the limiter of the SECApiClient
\* of the ROEExtractor that serves request r; 0: not constructed. made: the
\* number of RateLimiter objects constructed so far.
Unwired == [gate |-> 0, client |-> 0, req |-> [r \in Requests |-> 0],
            made |-> 0, phase |-> "none"]

InitLimiter ==
    /\ clock = Epoch
    /\ \E k \in {"js", "ts"} :
          limiters = [i \in Insts |-> IF i = 1 THEN NewLimiter(k) ELSE NoLimiter]
    /\ callers = [c \in CallerIds |-> IdleCaller]
    /\ grantLog = NoGrants
    /\ slack = 0
    /\ wiring = Unwired
    /\ fnIn = NotCalled
    /\ fnOut = NotCalled
    /\ NoBatch

NextLimiter ==
    \/ \E c \in Callers : Call(c, 1)
    \/ \E c \in Callers : WakeFull(c)
    \/ \E c \in Callers : WakeGap(c)
    \/ \E c \in Callers : WakeMin(c)
    \/ TickSlack(Callers, MaxTime)

SpecLimiter == InitLimiter /\ [][NextLimiter]_vars

----------------------------------------------------------------------------
(* One limiter instance and one caller whose calls follow one another *)

NextSequential ==
    \/ grantLog.count < MaxSeqCalls /\ Call(1, 1)
    \/ WakeFull(1)
    \/ WakeGap(1)
    \/ WakeMin(1)
    \/ grantLog.count < MaxSeqCalls /\ TickSlack({1}, Epoch + (MaxSeqCalls + MaxSlack + 1) * minDelay)

SpecSequential == InitLimiter /\ [][NextSequential]_vars

----------------------------------------------------------------------------
(* Construction: which component gets which limiter instance *)

MaxShareTicks == 4    \* the clock of the construction scenario

\* where a call stands after the synchronous part r of the limiter's entry
AfterEnter(r, i) ==
    IF r.pc = "granted" THEN IdleCaller
    ELSE [pc |-> r.pc, wake |-> r.wake, inst |-> i]

LogIfGranted(g, r, t) == IF r.pc = "granted" THEN LogGrant(g, t) ELSE g

\* calculateROE: Promise.all([fetchCompanyFacts(cik), fetchCompanySubmissions(cik)]).
\* Both fetches run, one after the other and without yielding in between, up
\* to the first await inside acquire(), on limiter i whose fields are L.
FetchBoth(c1, c2, i, L) ==
    LET r1 == EnterLimiter(L, clock)
        r2 == EnterLimiter(r1.lim, clock)
    IN  /\ limiters' = [limiters EXCEPT ![i] = r2.lim]
        /\ callers' = [callers EXCEPT ![c1] = AfterEnter(r1, i),
                                      ![c2] = AfterEnter(r2, i)]
        /\ grantLog' = LogIfGranted(LogIfGranted(grantLog, r1, clock), r2, clock)

\* new BatchROEProcessor(): new ROEExtractor() constructs a RateLimiter and
\* hands it to its SECApiClient; then the processor constructs its own
NewBatchROEProcessor ==
    /\ wiring.phase = "none"
    /\ LET a == wiring.made + 1
           b == wiring.made + 2
       IN  /\ limiters' = [limiters EXCEPT ![a] = NewLimiter("js"),
                                            ![b] = NewLimiter("js")]
           /\ wiring' = [wiring EXCEPT !.client = a, !.gate = b, !.made = b,
                                       !.phase = "constructed"]
    /\ UNCHANGED <<clock, callers, grantLog, slack, nonLimVars>>

\* processBatch: await this.rateLimiter.waitForSlot() for the first company
BatchGate ==
    /\ wiring.phase = "constructed"
    /\ callers[1].pc = "idle"
    /\ Settle(1, wiring.gate, EnterLimiter(limiters[wiring.gate], clock))
    /\ wiring' = [wiring EXCEPT !.phase = "gated"]
    /\ UNCHANGED <<clock, slack, nonLimVars>>

\* processUtilityROE -> calculateROE, once the gate has returned
BatchFetch ==
    /\ wiring.phase = "gated"
    /\ callers[1].pc = "idle"
    /\ FetchBoth(2, 3, wiring.client, limiters[wiring.client])
    /\ wiring' = [wiring EXCEPT !.phase = "fetching"]
    /\ UNCHANGED <<clock, slack, nonLimVars>>

\* route.ts GET: new ROEExtractor() (a RateLimiter of its own), then
\* calculateROE up to its Promise.all
GET(r) ==
    /\ wiring.req[r] = 0
    /\ LET a == wiring.made + 1
       IN  /\ FetchBoth(2 * r + 2, 2 * r + 3, a, NewLimiter("ts"))
           /\ wiring' = [wiring EXCEPT !.req[r] = a, !.made = a]
    /\ UNCHANGED <<clock, slack, nonLimVars>>

\* time passes and every timer fires when it is due
TickDue(maxTime) ==
    /\ clock + TickMs <= maxTime
    /\ \A c \in CallerIds : callers[c].pc # "idle" => clock + TickMs <= callers[c].wake
    /\ clock' = clock + TickMs
    /\ UNCHANGED <<limiters, callers, grantLog, slack, wiring, nonLimVars>>

InitShare ==
    /\ clock = Epoch
    /\ limiters = [i \in Insts |-> NoLimiter]
    /\ callers = [c \in CallerIds |-> IdleCaller]
    /\ grantLog = NoGrants
    /\ slack = 0
    /\ wiring = Unwired
    /\ fnIn = NotCalled
    /\ fnOut = NotCalled
    /\ NoBatch

NextShare ==
    \/ NewBatchROEProcessor
    \/ BatchGate
    \/ BatchFetch
    \/ \E r \in Requests : GET(r)
    \/ \E c \in CallerIds : WakeGap(c)
    \/ \E c \in CallerIds : WakeMin(c)
    \/ TickDue(Epoch + MaxShareTicks * TickMs)

SpecShare == InitShare /\ [][NextShare]_vars

----------------------------------------------------------------------------
(* Tag resolver: extractFinancialData *)

\* One entry facts['us-gaap'][tag] of a facts document. kind "absent": the
\* tag (or 'us-gaap', or its units) is missing; "nousd": units without USD;
\* "usd": units.USD is the array data, which may be empty.
Absent == [kind |-> "absent", data |-> <<>>]
NoUSD == [kind |-> "nousd", data |-> <<>>]
USD(data) == [kind |-> "usd", data |-> data]

\* facts['us-gaap'] && facts['us-gaap'][tag] && ...['units'] && ...['units']['USD']:
\* an array is truthy in JavaScript, the empty one too
HasUSD(facts, tag) == facts[tag].kind = "usd"

Found(tag, data) ==
    [ok |-> TRUE, tag |-> <<"us-gaap", tag>>, data |-> data]

\* new Error(`No ${label} data found using tag sequence: ${tagSequence.join(', ')}`)
NoDataError(label, tagSequence) ==
    [ok |-> FALSE, error |-> "No data found using tag sequence",
     label |-> label, tags |-> tagSequence]

RECURSIVE extractFinancialData(_, _, _, _)
\* the loop of extractFinancialData from position k of tagSequence on
extractFinancialData(facts, tagSequence, label, k) ==
    IF k > Len(tagSequence) THEN NoDataError(label, tagSequence)
    ELSE IF HasUSD(facts, tagSequence[k])
         THEN Found(tagSequence[k], facts[tagSequence[k]].data)
         ELSE extractFinancialData(facts, tagSequence, label, k + 1)

----------------------------------------------------------------------------
(* Tagged observations *)

\* a date string YYYY-MM-DD as year and month-day; NullDate: no such field
NullDate == [y |-> 0, md |-> "none"]
Jan1(y) == [y |-> y, md |-> "01-01"]
Dec31(y) == [y |-> y, md |-> "12-31"]
Jun30(y) == [y |-> y, md |-> "06-30"]

\* item.start && item.start.includes(`${year}-01-01`) and the like
IsDay(date, y, md) == date # NullDate /\ date.y = y /\ date.md = md
\* item.end && item.end.includes('-12-31')
IsMonthDay(date, md) == date # NullDate /\ date.md = md

\* One element of a units.USD array. fy = 0: no fiscal year; filed: the day
\* the filing was filed, as a day number.
Obs(start, end, fy, fp, filed, val, accn) ==
    [start |-> start, end |-> end, fy |-> fy, fp |-> fp, filed |-> filed,
     val |-> val, accn |-> accn]

----------------------------------------------------------------------------
(* Array.prototype.sort as V8 runs it on an array of fewer than 64 elements: *)
(* the leading run is found and, if strictly descending, reversed; the rest  *)
(* is inserted by binary insertion. order "filed": (a, b) => new Date(b.filed)*)
(* - new Date(a.filed); order "fyFiled": the comparator of the fallback;      *)
(* order "roe": (a, b) => b.roe_calculation.value - a.roe_calculation.value,  *)
(* the sign of the difference of two fractions with positive denominators;   *)
(* order "ascending": (a, b) => a - b on numbers that are fractions.         *)

\* a comparator that puts the oldest filing first
CompareOldestFirst(order, a, b) == a.filed - b.filed

Compare(order, a, b) ==
    IF order = "ascending"
    THEN a.num * b.den - b.num * a.den
    ELSE IF order = "roe"
    THEN b.roe_calculation.num * a.roe_calculation.den
         - a.roe_calculation.num * b.roe_calculation.den
    ELSE IF order = "fyFiled" /\ a.fy # 0 /\ b.fy # 0 /\ b.fy # a.fy
    THEN b.fy - a.fy
    ELSE b.filed - a.filed

RECURSIVE RunEnd(_, _, _, _)
\* the last index of the run that starts at 1, given it reaches k
RunEnd(s, order, desc, k) ==
    IF k = Len(s) THEN k
    ELSE LET c == Compare(order, s[k + 1], s[k])
         IN  IF (desc /\ c < 0) \/ (~desc /\ c >= 0)
             THEN RunEnd(s, order, desc, k + 1)
             ELSE k

RECURSIVE Reverse(_)
Reverse(s) == IF s = <<>> THEN <<>> ELSE Append(Reverse(Tail(s)), s[1])

RECURSIVE InsertionPoint(_, _, _, _, _)
\* binary search of the place of pivot in s[left+1 .. right] (0-based bounds)
InsertionPoint(s, order, pivot, left, right) ==
    IF left >= right THEN left
    ELSE LET mid == left + ((right - left) \div 2)
         IN  IF Compare(order, pivot, s[mid + 1]) < 0
             THEN InsertionPoint(s, order, pivot, left, mid)
             ELSE InsertionPoint(s, order, pivot, mid + 1, right)

RECURSIVE BinaryInsertionSort(_, _, _)
\* s[1..k] is sorted; insert s[k+1], s[k+2], ...
BinaryInsertionSort(s, order, k) ==
    IF k >= Len(s) THEN s
    ELSE LET pivot == s[k + 1]
             at == InsertionPoint(s, order, pivot, 0, k)
             moved == SubSeq(s, 1, at) \o <<pivot>> \o SubSeq(s, at + 1, k)
                      \o SubSeq(s, k + 2, Len(s))
         IN  BinaryInsertionSort(moved, order, k + 1)

Sort(s, order) ==
    IF Len(s) < 2 THEN s
    ELSE LET desc == Compare(order, s[2], s[1]) < 0
             r == RunEnd(s, order, desc, 2)
             run == IF desc THEN Reverse(SubSeq(s, 1, r)) ELSE SubSeq(s, 1, r)
         IN  BinaryInsertionSort(run \o SubSeq(s, r + 1, Len(s)), order, r)

----------------------------------------------------------------------------
(* Period selector: getMostRecentFiling *)

Selected(item) == [ok |-> TRUE, item |-> item]

\* new Error(`No data found for fiscal period: ${fiscalPeriod}`)
NoPeriodError(fiscalPeriod) ==
    [ok |-> FALSE, error |-> "No data found for fiscal period",
     period |-> fiscalPeriod]

fullYearEntries(dataArray, targetYear) ==
    LET keep(item) == /\ IsDay(item.start, targetYear, "01-01")
                      /\ IsDay(item.end, targetYear, "12-31")
    IN  SelectSeq(dataArray, keep)

yearEndEntries(dataArray, targetYear) ==
    LET keep(item) == IsDay(item.end, targetYear, "12-31")
    IN  SelectSeq(dataArray, keep)

\* the fallback: fiscal year and period, then for 'FY' any December 31
filteredEntries(dataArray, fiscalPeriod) ==
    LET byPeriod(item) == item.fy # 0 /\ item.fp = fiscalPeriod
        dec31(item) == IsMonthDay(item.end, "12-31")
        filtered == SelectSeq(dataArray, byPeriod)
    IN  IF Len(filtered) = 0 /\ fiscalPeriod = "FY"
        THEN SelectSeq(dataArray, dec31)
        ELSE filtered

\* a selector that gives up after the two year-based tiers
getMostRecentFilingNoFallback(dataArray, fiscalPeriod, targetYear) ==
    LET fullYear == fullYearEntries(dataArray, targetYear)
        yearEnd == yearEndEntries(dataArray, targetYear)
        filtered == filteredEntries(dataArray, fiscalPeriod)
    IN  IF fiscalPeriod = "FY" /\ targetYear # 0 /\ Len(fullYear) > 0
        THEN Selected(Sort(fullYear, "filed")[1])
        ELSE IF fiscalPeriod = "FY" /\ targetYear # 0 /\ Len(yearEnd) > 0
        THEN Selected(Sort(yearEnd, "filed")[1])
        ELSE IF Len(filtered) = 0 \/ (fiscalPeriod = "FY" /\ targetYear # 0)
        THEN NoPeriodError(fiscalPeriod)
        ELSE Selected(Sort(filtered, "fyFiled")[1])

\* targetYear = 0: null
getMostRecentFiling(dataArray, fiscalPeriod, targetYear) ==
    LET fullYear == fullYearEntries(dataArray, targetYear)
        yearEnd == yearEndEntries(dataArray, targetYear)
        filtered == filteredEntries(dataArray, fiscalPeriod)
    IN  IF fiscalPeriod = "FY" /\ targetYear # 0 /\ Len(fullYear) > 0
        THEN Selected(Sort(fullYear, "filed")[1])
        ELSE IF fiscalPeriod = "FY" /\ targetYear # 0 /\ Len(yearEnd) > 0
        THEN Selected(Sort(yearEnd, "filed")[1])
        ELSE IF Len(filtered) = 0
        THEN NoPeriodError(fiscalPeriod)
        ELSE Selected(Sort(filtered, "fyFiled")[1])

----------------------------------------------------------------------------
(* Company identifiers, accession numbers and number formatting *)

\* A company identifier as the code receives it. type "string": the string
\* of `zeros` characters '0' followed by the decimal notation of the positive
\* number `digits`; type "number": the JavaScript number `digits`.
JsNumber(n) == [type |-> "number", zeros |-> 0, digits |-> n]
DigitString(zeros, n) == [type |-> "string", zeros |-> zeros, digits |-> n]

RECURSIVE NumDigits(_)
NumDigits(n) == IF n < 10 THEN 1 ELSE 1 + NumDigits(n \div 10)

\* cik.toString()
toString(cik) == [cik EXCEPT !.type = "string"]

\* s.length
Length(s) == s.zeros + NumDigits(s.digits)

\* s.padStart(targetLength, '0')
padStart(s, targetLength) ==
    IF Length(s) >= targetLength THEN s
    ELSE [s EXCEPT !.zeros = @ + (targetLength - Length(s))]

\* s.replace(/^0+/, '')
stripLeadingZeros(s) == [s EXCEPT !.zeros = 0]

RECURSIVE Zeros(_)
Zeros(k) == IF k = 0 THEN "" ELSE "0" \o Zeros(k - 1)

\* the characters of a string, and `${cik}` of a number or a string
Text(v) == Zeros(v.zeros) \o ToString(v.digits)

\* the width of the identifier in the URLs of data.sec.gov
cikWidth == 10

\* fetchCompanyFacts: const paddedCik = cik.toString().padStart(10, '0')
factsCik(cik) == padStart(toString(cik), cikWidth)

\* fetchCompanySubmissions:
\* const paddedCik = cik.toString().replace(/^0+/, '').padStart(10, '0')
submissionsCik(cik) == padStart(stripLeadingZeros(toString(cik)), cikWidth)

\* An accession number: its parts, which the string joins with hyphens
Accession(filer, year, sequence) == <<filer, year, sequence>>

RECURSIVE removeHyphens(_)
\* accn.replace(/-/g, '')
removeHyphens(accn) ==
    IF accn = <<>> THEN "" ELSE accn[1] \o removeHyphens(Tail(accn))

archiveBase == "https://www.sec.gov/Archives/edgar/data/"

\* `https://www.sec.gov/Archives/edgar/data/${cik}/${accn.replace(/-/g, '')}`
filingUrl(cik, accn) == archiveBase \o Text(cik) \o "/" \o removeHyphens(accn)

\* a toFixed that cuts the digits after the second decimal off
toFixedTruncated(num, den) ==
    LET a == IF num < 0 THEN 0 - num ELSE num
        n == (a * 10000) \div den
        cents == n % 100
    IN  (IF num < 0 THEN "-" ELSE "") \o ToString(n \div 100) \o "."
        \o (IF cents < 10 THEN "0" ELSE "") \o ToString(cents)

\* (x * 100).toFixed(2) for x = num / den with den > 0: the decimal notation
\* with two decimals that is nearest to x * 100, the larger in magnitude of
\* two that are equally near. The quotient and the product are taken
\* exactly: the amounts of the model are such that the double-precision
\* quotient and product round to the same two decimals.
toFixed2(num, den) ==
    LET a == IF num < 0 THEN 0 - num ELSE num
        n == (2 * a * 10000 + den) \div (2 * den)
        cents == n % 100
    IN  (IF num < 0 THEN "-" ELSE "") \o ToString(n \div 100) \o "."
        \o (IF cents < 10 THEN "0" ELSE "") \o ToString(cents)

----------------------------------------------------------------------------
(* ROE calculator: calculateROE *)

\* the net-income fallback list of the extractor
netIncomeTagSequence ==
    <<"NetIncomeLoss", "IncomeLossFromContinuingOperations",
      "NetIncomeLossAvailableToCommonStockholdersBasic", "ProfitLoss">>

\* the equity fallback list of the extractor
equityTagSequence ==
    <<"StockholdersEquity",
      "StockholdersEquityIncludingPortionAttributableToNoncontrollingInterest">>

\* let targetYear = fiscalPeriod === 'FY' ? 2024 : null
defaultTargetYear == 2024

SetMax(S) == CHOOSE m \in S : \A n \in S : n <= m
SetMin(S) == CHOOSE m \in S : \A n \in S : m <= n

\* "Smart year targeting": 2024 when the net-income series has a 2024 full
\* year or no full year at all, else the latest year a full year starts in
TargetYear(data, fiscalPeriod) ==
    LET idx == 1..Len(data)
        available2024 ==
            \E k \in idx : /\ IsDay(data[k].start, defaultTargetYear, "01-01")
                           /\ IsDay(data[k].end, defaultTargetYear, "12-31")
        availableYears ==
            {data[k].start.y : k \in {j \in idx :
                /\ IsMonthDay(data[j].start, "01-01")
                /\ IsMonthDay(data[j].end, "12-31")
                /\ data[j].start.y > 0}}
    IN  IF fiscalPeriod # "FY" THEN 0
        ELSE IF available2024 \/ availableYears = {} THEN defaultTargetYear
        ELSE SetMax(availableYears)

\* an equity test that lets a negative equity through
zeroEquity(val) == val = 0

\* if (recentEquity.val <= 0)
invalidEquity(val) == val <= 0

\* new Error(`Invalid equity value: ${recentEquity.val}`)
InvalidEquityError(val) ==
    [ok |-> FALSE, error |-> "Invalid equity value", val |-> val]

\* a fetch of the Promise.all was rejected
FetchError(which) == [ok |-> FALSE, error |-> "API request failed", url |-> which]

\* the two documents the Promise.all resolved with
Fetched(companyFacts, companySubmissions) ==
    [ok |-> TRUE, companyFacts |-> companyFacts,
     companySubmissions |-> companySubmissions]

\* The result object. Carried: the identifier, the fields that come from the
\* two selected observations, and the ratio, as the exact fraction num / den,
\* with its percentage.
ROEResult(cik, fiscalPeriod, netIncomeData, equityData, recentNetIncome, recentEquity) ==
    [cik |-> padStart(toString(cik), cikWidth),
     fiscal_year |-> recentNetIncome.fy,
     fiscal_period |-> fiscalPeriod,
     filing_date |-> recentNetIncome.filed,
     accession_number |-> recentNetIncome.accn,
     filing_url |-> filingUrl(cik, recentNetIncome.accn),
     net_income |-> [value |-> recentNetIncome.val, tag |-> netIncomeData.tag],
     stockholders_equity |-> [value |-> recentEquity.val, tag |-> equityData.tag],
     roe_calculation |->
         [num |-> recentNetIncome.val, den |-> recentEquity.val,
          percentage |-> toFixed2(recentNetIncome.val, recentEquity.val) \o "%"]]

\* the try block of calculateROE from the Promise.all on: what it returns
\* ([ok |-> TRUE, result]) or the error it throws
tryCalculateROE(cik, fiscalPeriod, fetched) ==
    IF ~fetched.ok THEN fetched
    ELSE
    LET facts == fetched.companyFacts.facts
        netIncomeData == extractFinancialData(facts, netIncomeTagSequence, "Net Income", 1)
        equityData == extractFinancialData(facts, equityTagSequence, "Stockholders Equity", 1)
    IN  IF ~netIncomeData.ok THEN netIncomeData
        ELSE IF ~equityData.ok THEN equityData
        ELSE
        LET targetYear == TargetYear(netIncomeData.data, fiscalPeriod)
            recentNetIncome == getMostRecentFiling(netIncomeData.data, fiscalPeriod, targetYear)
            recentEquity == getMostRecentFiling(equityData.data, fiscalPeriod, targetYear)
        IN  IF ~recentNetIncome.ok THEN recentNetIncome
            ELSE IF ~recentEquity.ok THEN recentEquity
            ELSE IF invalidEquity(recentEquity.item.val)
            THEN InvalidEquityError(recentEquity.item.val)
            ELSE [ok |-> TRUE,
                  result |-> ROEResult(cik, fiscalPeriod, netIncomeData, equityData,
                                       recentNetIncome.item, recentEquity.item)]

\* console.log(`... Extracting data for ${fiscalPeriod}, target year:
\* ${targetYear}`): the year logged, 0 for null, -1 when the line is not reached
loggedTargetYear(fiscalPeriod, fetched) ==
    IF ~fetched.ok THEN 0 - 1
    ELSE
    LET facts == fetched.companyFacts.facts
        netIncomeData == extractFinancialData(facts, netIncomeTagSequence, "Net Income", 1)
        equityData == extractFinancialData(facts, equityTagSequence, "Stockholders Equity", 1)
    IN  IF ~netIncomeData.ok \/ ~equityData.ok THEN 0 - 1
        ELSE TargetYear(netIncomeData.data, fiscalPeriod)

\* the catch of calculateROE wraps the error of the try block into
\* `ROE calculation failed for ${ticker} (CIK: ${cik}): ${error.message}`
Rethrown(ticker, cik, r) ==
    IF r.ok THEN r
    ELSE [ok |-> FALSE, error |-> "ROE calculation failed",
          ticker |-> ticker, cik |-> cik, cause |-> r]

calculateROE(ticker, cik, period, fetched) ==
    Rethrown(ticker, cik, tryCalculateROE(cik, period, fetched))

\* testSingleCompany: the result of calculateROE is returned, its error is
\* logged and thrown again as it is
testSingleCompany(ticker, cik, fiscalPeriod, fetched) ==
    calculateROE(ticker, cik, fiscalPeriod, fetched)

----------------------------------------------------------------------------
(* ROE calculator of the web route: route.ts calculateROE *)

\* for (let year = currentYear - 19; ...)
historyLookback == 19

\* one pass of the loop over the years without the test of the equity
historicalEntryUnchecked(netIncome, equity, year) ==
    LET yearNetIncome == getMostRecentFiling(netIncome, "FY", year)
        yearEquity == getMostRecentFiling(equity, "FY", year)
    IN  IF yearNetIncome.ok /\ yearEquity.ok
        THEN <<[year |-> year, num |-> yearNetIncome.item.val,
                den |-> yearEquity.item.val]>>
        ELSE <<>>

\* one pass of the loop over the years: what it pushes; an error of a
\* selection is caught inside the pass
historicalEntry(netIncome, equity, year) ==
    LET yearNetIncome == getMostRecentFiling(netIncome, "FY", year)
        yearEquity == getMostRecentFiling(equity, "FY", year)
    IN  IF yearNetIncome.ok /\ yearEquity.ok /\ yearEquity.item.val > 0
        THEN <<[year |-> year, num |-> yearNetIncome.item.val,
                den |-> yearEquity.item.val]>>
        ELSE <<>>

\* the loop from `year` on, up to currentYear
RECURSIVE historicalFrom(_, _, _, _)
historicalFrom(netIncome, equity, year, currentYear) ==
    IF year > currentYear THEN <<>>
    ELSE historicalEntry(netIncome, equity, year)
         \o historicalFrom(netIncome, equity, year + 1, currentYear)

\* historicalData; currentYear = recentNetIncome.fy. Without a fiscal year
\* currentYear is undefined, currentYear - 19 is NaN and the loop does not run.
historicalData(netIncome, equity, currentYear) ==
    IF currentYear = 0 THEN <<>>
    ELSE historicalFrom(netIncome, equity, currentYear - historyLookback, currentYear)

\* calculateROE of route.ts. Up to the filing URL its try block is that of
\* roeExtractor.js (the total assets are optional and their errors are
\* caught); then the historical series is built. Its catch logs the error
\* and throws it again as it is.
routeCalculateROE(ticker, cik, fiscalPeriod, fetched) ==
    LET primary == tryCalculateROE(cik, fiscalPeriod, fetched)
    IN  IF ~primary.ok THEN primary
        ELSE
        LET facts == fetched.companyFacts.facts
            netIncomeData == extractFinancialData(facts, netIncomeTagSequence, "Net Income", 1)
            equityData == extractFinancialData(facts, equityTagSequence, "Stockholders Equity", 1)
        IN  [ok |-> TRUE,
             result |->
                [current_roe |-> [num |-> primary.result.roe_calculation.num,
                                  den |-> primary.result.roe_calculation.den,
                                  percentage |-> primary.result.roe_calculation.percentage,
                                  fiscal_year |-> primary.result.fiscal_year],
                 historical_roe |-> historicalData(netIncomeData.data, equityData.data,
                                                   primary.result.fiscal_year),
                 filing_url |-> primary.result.filing_url]]

----------------------------------------------------------------------------
(* Inputs of the resolver and of the selector *)

MaxTags == 3          \* length of a candidate tag list
MaxObs == 2           \* length of a units.USD array

SeqsUpTo(S, n) == UNION {[1..k -> S] : k \in 0..n}

Years == {2023, 2024}
Periods == {"FY", "Q2"}

\* every observation with these dates, fiscal years, labels and filing days
ObsPool ==
    {Obs(st, en, fy, fp, filed, 1, Accession("0000000000", "24", "000001")) :
        st \in {0, 1}, en \in {Dec31(2023), Dec31(2024), Jun30(2024)},
        fy \in {0} \cup Years, fp \in Periods, filed \in {1, 2}}

\* st = 1: the observation starts on January 1 of the year it ends in
WithStart(o) == [o EXCEPT !.start = IF @ = 1 THEN Jan1(o.end.y) ELSE NullDate]

Observations == {WithStart(o) : o \in ObsPool}

ResolveTags == {netIncomeTagSequence[1], netIncomeTagSequence[2], netIncomeTagSequence[4]}
SomeData == <<CHOOSE o \in Observations : TRUE>>
ResolveEntries == {Absent, NoUSD, USD(<<>>), USD(SomeData), USD(SomeData \o SomeData)}

----------------------------------------------------------------------------
(* The resolver applied to every candidate list and facts document *)

InitResolve ==
    /\ clock = Epoch
    /\ limiters = [i \in Insts |-> NoLimiter]
    /\ callers = [c \in CallerIds |-> IdleCaller]
    /\ grantLog = NoGrants
    /\ slack = 0
    /\ wiring = Unwired
    /\ \E facts \in [ResolveTags -> ResolveEntries],
          tagSequence \in SeqsUpTo(ResolveTags, MaxTags),
          label \in {"Net Income", "Stockholders Equity"} :
          fnIn = [op |-> "extractFinancialData", facts |-> facts,
                  tagSequence |-> tagSequence, label |-> label]
    /\ fnOut = NotCalled
    /\ NoBatch

CallExtractFinancialData ==
    /\ fnIn.op = "extractFinancialData"
    /\ fnOut = NotCalled
    /\ fnOut' = extractFinancialData(fnIn.facts, fnIn.tagSequence, fnIn.label, 1)
    /\ UNCHANGED <<fnIn, limVars, batchVars>>

SpecResolve == InitResolve /\ [][CallExtractFinancialData]_vars

----------------------------------------------------------------------------
(* The selector applied to every series, period and target year *)

InitSelect ==
    /\ clock = Epoch
    /\ limiters = [i \in Insts |-> NoLimiter]
    /\ callers = [c \in CallerIds |-> IdleCaller]
    /\ grantLog = NoGrants
    /\ slack = 0
    /\ wiring = Unwired
    /\ \E dataArray \in SeqsUpTo(Observations, MaxObs),
          fiscalPeriod \in Periods, targetYear \in {0} \cup Years :
          fnIn = [op |-> "getMostRecentFiling", dataArray |-> dataArray,
                  fiscalPeriod |-> fiscalPeriod, targetYear |-> targetYear]
    /\ fnOut = NotCalled
    /\ NoBatch

CallGetMostRecentFiling ==
    /\ fnIn.op = "getMostRecentFiling"
    /\ fnOut = NotCalled
    /\ fnOut' = getMostRecentFiling(fnIn.dataArray, fnIn.fiscalPeriod, fnIn.targetYear)
    /\ UNCHANGED <<fnIn, limVars, batchVars>>

SpecSelect == InitSelect /\ [][CallGetMostRecentFiling]_vars

----------------------------------------------------------------------------
(* The selector applied to series that reach its fallback *)

MaxFallbackObs == 3   \* length of a series that reaches the fallback
MaxFiledDay == 3      \* filing days of the observations of such a series

\* observations that end on a December 31 or in mid-year, with or without a
\* fiscal year, labelled annual or quarterly
FallbackObservations ==
    {Obs(NullDate, en, fy, fp, filed, 1, Accession("0000000000", "24", "000001")) :
        en \in {Dec31(2023), Jun30(2024)}, fy \in {0} \cup Years,
        fp \in Periods, filed \in 1..MaxFiledDay}

InitFallback ==
    /\ clock = Epoch
    /\ limiters = [i \in Insts |-> NoLimiter]
    /\ callers = [c \in CallerIds |-> IdleCaller]
    /\ grantLog = NoGrants
    /\ slack = 0
    /\ wiring = Unwired
    /\ \E dataArray \in SeqsUpTo(FallbackObservations, MaxFallbackObs),
          period \in Periods, targetYear \in {0, defaultTargetYear} :
          fnIn = [op |-> "getMostRecentFiling", dataArray |-> dataArray,
                  fiscalPeriod |-> period, targetYear |-> targetYear]
    /\ fnOut = NotCalled
    /\ NoBatch

SpecFallback == InitFallback /\ [][CallGetMostRecentFiling]_vars

----------------------------------------------------------------------------
(* Summary statistics: calculateSummaryStatistics *)

\* A JavaScript number that is a ratio of amounts: the fraction num / den in
\* lowest terms, den > 0. The arithmetic is exact.
RECURSIVE GCD(_, _)
GCD(a, b) == IF b = 0 THEN a ELSE GCD(b, a % b)

Abs(n) == IF n < 0 THEN 0 - n ELSE n

Frac(num, den) ==
    LET g == GCD(Abs(num), Abs(den))
        sign == IF den < 0 THEN 0 - 1 ELSE 1
    IN  [num |-> sign * (num \div g), den |-> sign * (den \div g)]

Zero == Frac(0, 1)
Plus(a, b) == Frac(a.num * b.den + b.num * a.den, a.den * b.den)
Minus(a, b) == Frac(a.num * b.den - b.num * a.den, a.den * b.den)
Times(a, b) == Frac(a.num * b.num, a.den * b.den)
Over(a, n) == Frac(a.num, a.den * n)
LessEq(a, b) == a.num * b.den <= b.num * a.den

\* values.reduce((acc, val) => acc + f(val), 0)
RECURSIVE Reduce(_, _, _)
Reduce(f(_), values, k) ==
    IF k = 0 THEN Zero ELSE Plus(Reduce(f, values, k - 1), f(values[k]))

\* Math.min(...values) and Math.max(...values)
RECURSIVE MathMin(_, _)
MathMin(values, k) ==
    IF k = 1 THEN values[1]
    ELSE LET m == MathMin(values, k - 1)
         IN  IF LessEq(m, values[k]) THEN m ELSE values[k]

RECURSIVE MathMax(_, _)
MathMax(values, k) ==
    IF k = 1 THEN values[1]
    ELSE LET m == MathMax(values, k - 1)
         IN  IF LessEq(values[k], m) THEN m ELSE values[k]

\* Math.sqrt(variance): the root of the fraction `of`
Sqrt(variance) == [of |-> variance]

\* the return value for successful.length === 0
ZeroStatistics ==
    [count |-> 0, average_roe |-> Zero, median_roe |-> Zero, min_roe |-> Zero,
     max_roe |-> Zero, std_deviation |-> Zero]

\* the copy of the values as it is, in the order of the successes
unsortedCopy(values) == values

\* [...roeValues].sort((a, b) => a - b)
sortedCopy(values) == Sort(values, "ascending")

calculateSummaryStatistics(results) ==
    LET successful == results.successful
        n == Len(successful)
        roeValues == [k \in 1..n |-> Frac(successful[k].roe_calculation.num,
                                          successful[k].roe_calculation.den)]
        id(val) == val
        sum == Reduce(id, roeValues, n)
        average == Over(sum, n)
        sortedValues == sortedCopy(roeValues)
        median == IF n % 2 = 0
                  THEN Over(Plus(sortedValues[n \div 2], sortedValues[n \div 2 + 1]), 2)
                  ELSE sortedValues[n \div 2 + 1]
        squared(val) == Times(Minus(val, average), Minus(val, average))
        variance == Over(Reduce(squared, roeValues, n), n)
    IN  IF n = 0 THEN ZeroStatistics
        ELSE [count |-> n, average_roe |-> average, median_roe |-> median,
              min_roe |-> MathMin(roeValues, n), max_roe |-> MathMax(roeValues, n),
              std_deviation |-> Sqrt(variance)]

----------------------------------------------------------------------------
(* Batch orchestrator: BatchROEProcessor *)

\* this.batchSize = 10
defaultBatchSize == 10
\* runQuickTest: utilities.slice(0, 5) and processor.batchSize = 5
quickSample == 5
quickBatchSize == 5
\* setTimeout(resolve, 2000) between batches
batchPause == 2000
\* this.fiscalPeriod = 'FY'
fiscalPeriod == "FY"

MaxBatchSize == 2     \* batch sizes a caller sets in place of the default
MaxFairCompanies == 2 \* length of the master list in the runs under fairness
MaxDelays == 1        \* delays of minDelay that HTTP responses add to a run

Range(s) == {s[k] : k \in 1..Len(s)}
AllTags == Range(netIncomeTagSequence) \cup Range(equityTagSequence)

\* an income observation of the whole year 2024 and a balance at its end
FullYear24(val) ==
    Obs(Jan1(2024), Dec31(2024), 2024, "FY", 1, val, Accession("0000000000", "25", "000001"))
YearEnd24(val) ==
    Obs(NullDate, Dec31(2024), 2024, "FY", 1, val, Accession("0000000000", "25", "000001"))
\* an observation that no annual selection takes
HalfYear24(val) ==
    Obs(NullDate, Jun30(2024), 0, "Q2", 1, val, Accession("0000000000", "24", "000002"))

\* a facts document: the given entries, every other tag absent
Facts(entries) ==
    [t \in AllTags |-> IF t \in DOMAIN entries THEN entries[t] ELSE Absent]

\* the identifier of an entry of the master list:
\* Math.floor(parseFloat(row.cik)).toString().padStart(10, '0')
ListedCik(n) == padStart(toString(JsNumber(n)), cikWidth)

\* the entries of the master utility list
Utilities ==
    {[ticker |-> "AEE", cik |-> ListedCik(1)], [ticker |-> "DUK", cik |-> ListedCik(2)],
     [ticker |-> "XEL", cik |-> ListedCik(3)], [ticker |-> "SO", cik |-> ListedCik(4)],
     [ticker |-> "PCG", cik |-> ListedCik(5)]}

\* what data.sec.gov serves as companyfacts for a CIK
Served(cik) ==
    CASE cik.digits = 1 ->
           Facts(("NetIncomeLoss" :> USD(<<FullYear24(12)>>))
                 @@ ("StockholdersEquity" :> USD(<<YearEnd24(100)>>)))
      [] cik.digits = 2 ->
           Facts(("ProfitLoss" :> USD(<<FullYear24(30)>>))
                 @@ (equityTagSequence[2] :> USD(<<YearEnd24(100)>>)))
      [] cik.digits = 3 ->
           Facts("StockholdersEquity" :> USD(<<YearEnd24(100)>>))
      [] cik.digits = 4 ->
           Facts(("NetIncomeLoss" :> USD(<<HalfYear24(12)>>))
                 @@ ("StockholdersEquity" :> USD(<<YearEnd24(100)>>)))
      [] OTHER ->
           Facts(("NetIncomeLoss" :> USD(<<FullYear24(12)>>))
                 @@ ("StockholdersEquity" :> USD(<<YearEnd24(0 - 5)>>)))

\* the sequences without repetition over S, up to length n
DistinctSeqs(S, n) ==
    {q \in SeqsUpTo(S, n) : \A a, b \in 1..Len(q) : a # b => q[a] # q[b]}

EmptyLists == [successful |-> <<>>, failed |-> <<>>]

\* the initial this.results.summary
NoSummary ==
    [total_processed |-> 0, successful_calculations |-> 0,
     failed_calculations |-> 0, average_roe |-> Zero]

\* new BatchROEProcessor(), about to run over the master list `list`.
\* i: the loop variable of processBatchROE; cur: how many utilities have been
\* taken up; batchEnd: where the batch in hand ends; written: which of the
\* files of saveResults are written; thrower: the method whose error reached the
\* caller of the run; answered: for each calculation that has settled, whether
\* both its HTTP requests were answered (bookkeeping).
Constructed(mode, batchSize, list) ==
    [pc |-> "constructed", mode |-> mode, batchSize |-> batchSize,
     list |-> list, utilities |-> <<>>, i |-> 0, cur |-> 0, batchEnd |-> 0,
     batchResults |-> EmptyLists, results |-> EmptyLists,
     summary |-> NoSummary, wake |-> 0, written |-> "none", thrower |-> "none",
     answered |-> <<>>]

\* processUtilityROE after the await: the result with the utility's identity,
\* or the failure record made by the catch. thrown: an error leaves the method.
UtilityOutcome(utility, roeResult) ==
    IF roeResult.ok
    THEN [thrown |-> FALSE, success |-> TRUE,
          result |-> roeResult.result @@ [utility_info |-> utility]]
    ELSE [thrown |-> FALSE, success |-> FALSE,
          error |-> [ticker |-> utility.ticker, cik |-> utility.cik,
                     error_message |-> roeResult]]

\* a processUtilityROE without its catch
processUtilityROEUncaught(utility, fetched) ==
    LET out == UtilityOutcome(utility, calculateROE(utility.ticker, utility.cik,
                                                    fiscalPeriod, fetched))
    IN  [out EXCEPT !.thrown = ~out.success]

processUtilityROE(utility, fetched) ==
    UtilityOutcome(utility,
                   calculateROE(utility.ticker, utility.cik, fiscalPeriod, fetched))

\* a processBatch that keeps the outcome in batchResults alone
RecordInBatchOnly(p, r) ==
    IF r.success
    THEN [p EXCEPT !.batchResults.successful = Append(@, r.result)]
    ELSE [p EXCEPT !.batchResults.failed = Append(@, r.error)]

\* processBatch: the outcome goes to batchResults and to this.results
Record(p, r) ==
    IF r.success
    THEN [p EXCEPT !.batchResults.successful = Append(@, r.result),
                   !.results.successful = Append(@, r.result)]
    ELSE [p EXCEPT !.batchResults.failed = Append(@, r.error),
                   !.results.failed = Append(@, r.error)]

Min(a, b) == IF a < b THEN a ELSE b

\* one batch more than there are
oneMoreBatch(p) == (Len(p.utilities) + p.batchSize - 1) \div p.batchSize + 1

\* Math.ceil(utilities.length / this.batchSize)
totalBatches(p) == (Len(p.utilities) + p.batchSize - 1) \div p.batchSize

\* Where the run stands after a step, as the processor p and whether the step
\* ends in a call of this.rateLimiter.waitForSlot(). at "test": the test
\* i < utilities.length of processBatchROE's loop; "step": the loop
\* for (const utility of utilities) of processBatch; "return": processBatch
\* returns, to runQuickTest, which returns batchResults, or to processBatchROE,
\* which pauses if (batchIndex < totalBatches - 1) and then does
\* i += this.batchSize.
RECURSIVE Run(_, _)
Run(p, at) ==
    CASE at = "test" ->
           IF p.i < Len(p.utilities)
           THEN Run([p EXCEPT !.cur = p.i,
                              !.batchEnd = Min(p.i + p.batchSize, Len(p.utilities)),
                              !.batchResults = EmptyLists], "step")
           ELSE [p |-> [p EXCEPT !.pc = "saving"], gate |-> FALSE]
      [] at = "step" ->
           IF p.cur < p.batchEnd
           THEN [p |-> [p EXCEPT !.cur = @ + 1, !.pc = "gate"], gate |-> TRUE]
           ELSE Run(p, "return")
      [] OTHER ->
           IF p.mode = "quick"
           THEN [p |-> [p EXCEPT !.pc = "complete"], gate |-> FALSE]
           ELSE IF p.i \div p.batchSize < totalBatches(p) - 1
           THEN [p |-> [p EXCEPT !.pc = "pause", !.wake = clock + batchPause],
                 gate |-> FALSE]
           ELSE Run([p EXCEPT !.i = @ + p.batchSize], "test")

\* processBatchROE enters its loop
LoopStart(p) == Run([p EXCEPT !.i = 0], "test")

\* i += this.batchSize after the pause
LoopNext(p) == Run([p EXCEPT !.i = @ + p.batchSize], "test")

\* runQuickTest: processBatch(sampleUtilities, 0, 1)
SampleBatch(p) ==
    Run([p EXCEPT !.cur = 0, !.batchEnd = Len(p.utilities),
                  !.batchResults = EmptyLists], "step")

\* processBatch after an outcome was recorded
StepBatch(p) == Run(p, "step")

\* the run takes the step planned by `step`
Apply(step) ==
    \E plan \in {step} :
       /\ proc' = plan.p
       /\ IF plan.gate
          THEN Settle(1, wiring.gate, EnterLimiter(limiters[wiring.gate], clock))
          ELSE UNCHANGED <<limiters, callers, grantLog>>

\* an error that is swallowed: the run goes on, over no utilities
Swallow(thrower) == Apply(LoopStart([proc EXCEPT !.thrower = thrower]))

\* an error reaches the caller of the run
Raise(thrower) ==
    /\ proc' = [proc EXCEPT !.pc = "raised", !.thrower = thrower]
    /\ UNCHANGED <<limiters, callers, grantLog>>

\* processBatchROE / runQuickTest up to the first await of the first batch
LoadMasterUtilityList ==
    /\ proc.pc = "constructed"
    /\ \/ Raise("loadMasterUtilityList")
       \/ IF proc.mode = "quick"
          THEN LET sample == SubSeq(proc.list, 1, Min(quickSample, Len(proc.list)))
               IN  Apply(SampleBatch([proc EXCEPT !.utilities = sample,
                                                  !.batchSize = quickBatchSize]))
          ELSE Apply(LoopStart([proc EXCEPT !.utilities = proc.list]))
    /\ UNCHANGED <<clock, slack, wiring, net, fnVars>>

\* the gate has returned: processUtilityROE -> calculateROE up to the
\* Promise.all of the two fetches
StartCalc ==
    /\ proc.pc = "gate"
    /\ callers[1].pc = "idle"
    /\ FetchBoth(2 * proc.cur, 2 * proc.cur + 1, wiring.client, limiters[wiring.client])
    /\ net' = [net EXCEPT ![2 * proc.cur] = "asked", ![2 * proc.cur + 1] = "asked"]
    /\ proc' = [proc EXCEPT !.pc = "calc"]
    /\ UNCHANGED <<clock, slack, wiring, fnVars>>

\* a processBatch that goes on to the next utility and records nothing
ProceedUnrecorded(p, r) == Apply(StepBatch(p))

\* processBatch with the outcome r of processUtilityROE: it records and goes
\* on; it has no catch of its own
Proceed(p, r) ==
    IF r.thrown THEN Raise("processBatch")
    ELSE Apply(StepBatch(Record(p, r)))

\* calculateROE settles with `fetched`
Settled(utility, fetched) ==
    \E r \in {processUtilityROE(utility, fetched)} :
       Proceed([proc EXCEPT !.answered = Append(@, fetched.ok)], r)

\* a combinator that settles with the first answer, whatever it is
settlesWithFirst(answer, other) == TRUE

\* Promise.all([...]) when one of its two promises settles with `answer`
\* and the other one stands at `other`: it settles unless the answer is a
\* fulfilment and the other promise is still pending
promiseAllSettles(answer, other) == ~(answer = "ok" /\ other # "ok")

\* The HTTP request of call c of the running calculation is answered or
\* fails. The Promise.all rejects with the first failure and resolves when
\* both answers are in. Once it has settled, the answer to the other request
\* reaches no code of the processor: the request is an orphan.
Respond(c) ==
    /\ proc.pc = "calc"
    /\ c \in {2 * proc.cur, 2 * proc.cur + 1}
    /\ net[c] = "asked"
    /\ callers[c].pc = "idle"
    /\ LET isFacts == c = 2 * proc.cur
           other == IF isFacts THEN c + 1 ELSE c - 1
           utility == proc.utilities[proc.cur]
       IN  \E answer \in {"ok", "error"} :
              IF ~promiseAllSettles(answer, net[other])
              THEN /\ net' = [net EXCEPT ![c] = "ok"]
                   /\ UNCHANGED <<proc, limiters, callers, grantLog>>
              ELSE /\ net' = [net EXCEPT ![c] = "done",
                                         ![other] = IF @ = "asked" THEN "orphan"
                                                    ELSE "done"]
                   /\ Settled(utility,
                              IF answer = "ok"
                              THEN Fetched([facts |-> Served(utility.cik)],
                                           [cik |-> utility.cik])
                              ELSE FetchError(IF isFacts THEN "companyfacts"
                                              ELSE "submissions"))
    /\ UNCHANGED <<clock, slack, wiring, fnVars>>

\* the pause between two batches is over
PauseEnd ==
    /\ proc.pc = "pause"
    /\ clock >= proc.wake
    /\ Apply(LoopNext(proc))
    /\ UNCHANGED <<clock, slack, wiring, net, fnVars>>

\* the summary that saveResults writes into this.results
Summary(results) ==
    [total_processed |-> Len(results.successful) + Len(results.failed),
     successful_calculations |-> Len(results.successful),
     failed_calculations |-> Len(results.failed),
     statistics |-> calculateSummaryStatistics(results)]

\* saveResults, displayFinalSummary, return this.results. The directory
\* cannot be made, or one of the writeFile calls fails, or nothing fails.
SaveResults ==
    /\ proc.pc = "saving"
    /\ LET summed == [proc EXCEPT !.summary = Summary(proc.results)]
       IN  \/ proc' = [proc EXCEPT !.pc = "raised", !.thrower = "saveResults"]
           \/ proc' = [summed EXCEPT !.pc = "raised", !.thrower = "saveResults",
                                     !.written = "some"]
           \/ proc' = [summed EXCEPT !.pc = "complete", !.written = "all",
                                     !.results.successful = Sort(@, "roe")]
    /\ UNCHANGED <<limVars, net, fnVars>>

\* the due times of the timers that are set
Dues ==
    {callers[c].wake : c \in {d \in CallerIds : callers[d].pc # "idle"}}
    \cup (IF proc.pc = "pause" THEN {proc.wake} ELSE {})

\* nothing is due: the clock goes to the timer that is due next
AdvanceClock ==
    /\ Dues # {}
    /\ SetMin(Dues) > clock
    /\ clock' = SetMin(Dues)
    /\ UNCHANGED <<limiters, callers, grantLog, slack, wiring, nonLimVars>>

\* no timer is set and an HTTP request is under way: it takes its time
Elapse ==
    /\ Dues = {}
    /\ \E c \in CallerIds : net[c] = "asked" /\ callers[c].pc = "idle"
    /\ slack < MaxDelays
    /\ clock' = clock + minDelay
    /\ slack' = slack + 1
    /\ UNCHANGED <<limiters, callers, grantLog, wiring, nonLimVars>>

\* a processor constructed for a master list of at most n utilities; a
\* caller of processBatchROE may have set batchSize, as runQuickTest does
InitBatchOf(n) ==
    /\ clock = Epoch
    /\ limiters = [i \in Insts |-> IF i <= 2 THEN NewLimiter("js") ELSE NoLimiter]
    /\ callers = [c \in CallerIds |-> IdleCaller]
    /\ grantLog = NoGrants
    /\ slack = 0
    /\ wiring = [Unwired EXCEPT !.client = 1, !.gate = 2, !.made = 2,
                                !.phase = "constructed"]
    /\ fnIn = NotCalled
    /\ fnOut = NotCalled
    /\ net = NoNet
    /\ \E list \in DistinctSeqs(Utilities, n) :
          \/ proc = Constructed("quick", defaultBatchSize, list)
          \/ \E size \in {defaultBatchSize} \cup 1..MaxBatchSize :
                proc = Constructed("full", size, list)

InitBatch == InitBatchOf(MaxCompanies)
InitBatchFair == InitBatchOf(MaxFairCompanies)

\* within MaxCompanies the window of a limiter never fills
NextBatchRun ==
    \/ LoadMasterUtilityList
    \/ StartCalc
    \/ \E c \in CallerIds : Respond(c)
    \/ \E c \in CallerIds : WakeGap(c)
    \/ PauseEnd
    \/ SaveResults
    \/ AdvanceClock
    \/ Elapse

SpecBatch == InitBatch /\ [][NextBatchRun]_vars

\* the event loop runs what is ready, timers fire, and every HTTP request
\* is answered or fails
SpecBatchFair == InitBatchFair /\ [][NextBatchRun]_vars /\ WF_vars(NextBatchRun)

----------------------------------------------------------------------------
(* The calculator applied to the documents of one company *)

MaxIncomeObs == 2     \* length of the net-income series
MaxEquityObs == 1     \* length of the equity series
MaxExtraZeros == 3    \* zeros in front of an identifier that is padded already

\* the years the observations of a document lie in
CalcYears == {2022, 2023, 2024}
\* amounts, in millions of dollars (the ratio of two amounts is the same in
\* every unit)
IncomeVals == {0 - 5, 0, 12, 2854}
EquityVals == {0 - 3, 0, 100, 800, 32456}

\* the company of the documents
SampleCik == 17797
SampleAccession == Accession("0000017797", "25", "000012")

\* flow observations from a January 1 to a December 31, of one year or more
IncomeObs ==
    {Obs(Jan1(sy), Dec31(ey), ey, "FY", 1, val, SampleAccession) :
        sy \in CalcYears, ey \in CalcYears, val \in IncomeVals}

\* balances at the end of a year
EquityObs ==
    {Obs(NullDate, Dec31(y), y, "FY", 1, val, SampleAccession) :
        y \in CalcYears, val \in EquityVals}

IncomeSeries == {q \in SeqsUpTo(IncomeObs, MaxIncomeObs) :
                    \A k \in 1..Len(q) : q[k].start.y <= q[k].end.y}
EquitySeries == SeqsUpTo(EquityObs, MaxEquityObs)

\* the forms an identifier is passed in: the number, its decimal notation,
\* the notation padded to ten characters, and that with zeros in front
CikForms ==
    {JsNumber(SampleCik)}
    \cup {DigitString(z, SampleCik) :
             z \in {0} \cup ((cikWidth - NumDigits(SampleCik))
                             ..(cikWidth - NumDigits(SampleCik) + MaxExtraZeros))}

InitCalc ==
    /\ clock = Epoch
    /\ limiters = [i \in Insts |-> NoLimiter]
    /\ callers = [c \in CallerIds |-> IdleCaller]
    /\ grantLog = NoGrants
    /\ slack = 0
    /\ wiring = Unwired
    /\ \E cik \in CikForms, period \in Periods :
          \/ \E income \in IncomeSeries, equity \in EquitySeries :
                fnIn = [op |-> "calculateROE", ticker |-> "DUK", cik |-> cik,
                        fiscalPeriod |-> period,
                        fetched |-> Fetched(
                            [facts |-> Facts(("NetIncomeLoss" :> USD(income))
                                             @@ ("StockholdersEquity" :> USD(equity)))],
                            [cik |-> cik])]
          \/ \E which \in {"companyfacts", "submissions"} :
                fnIn = [op |-> "calculateROE", ticker |-> "DUK", cik |-> cik,
                        fiscalPeriod |-> period, fetched |-> FetchError(which)]
    /\ fnOut = NotCalled
    /\ NoBatch

\* calculateROE from the settling of its Promise.all on
CallCalculateROE ==
    /\ fnIn.op = "calculateROE"
    /\ fnOut = NotCalled
    /\ fnOut' = [returned |-> calculateROE(fnIn.ticker, fnIn.cik,
                                           fnIn.fiscalPeriod, fnIn.fetched),
                 targetYear |-> loggedTargetYear(fnIn.fiscalPeriod, fnIn.fetched)]
    /\ UNCHANGED <<fnIn, limVars, batchVars>>

SpecCalc == InitCalc /\ [][CallCalculateROE]_vars

----------------------------------------------------------------------------
(* One company at a time: testSingleCompany and the web route *)

MaxSingleObs == 2     \* length of a series of the document

Apr1(y) == [y |-> y, md |-> "04-01"]

SingleYears == {2023, 2024}

\* net income of a whole year, as first filed (fy = the year), as restated in
\* the filing of the year after (fy = the year + 1) or without a fiscal year;
\* a loss of 2024; net income of a second quarter
SingleIncomeObs ==
    {Obs(Jan1(y), Dec31(y), y + late, "FY", late + 1, 12, SampleAccession) :
        y \in SingleYears, late \in {0, 1}}
    \cup {Obs(Jan1(2024), Dec31(2024), 0, "FY", 1, 12, SampleAccession),
          Obs(Jan1(2024), Dec31(2024), 2024, "FY", 1, 0 - 5, SampleAccession),
          Obs(Apr1(2024), Jun30(2024), 2024, "Q2", 1, 3, SampleAccession)}

\* equity at the end of a year, positive or not, and at the end of a quarter
SingleEquityObs ==
    {Obs(NullDate, Dec31(y), y, "FY", 1, val, SampleAccession) :
        y \in SingleYears, val \in {100, 0 - 3}}
    \cup {Obs(NullDate, Jun30(2024), 2024, "Q2", 1, 100, SampleAccession)}

InitSingle ==
    /\ clock = Epoch
    /\ limiters = [i \in Insts |-> NoLimiter]
    /\ callers = [c \in CallerIds |-> IdleCaller]
    /\ grantLog = NoGrants
    /\ slack = 0
    /\ wiring = Unwired
    /\ \E op \in {"testSingleCompany", "route.calculateROE"}, period \in Periods :
          \/ \E income \in SeqsUpTo(SingleIncomeObs, MaxSingleObs),
                equity \in SeqsUpTo(SingleEquityObs, MaxSingleObs) :
                fnIn = [op |-> op, ticker |-> "DUK", cik |-> ListedCik(SampleCik),
                        fiscalPeriod |-> period,
                        fetched |-> Fetched(
                            [facts |-> Facts(("NetIncomeLoss" :> USD(income))
                                             @@ ("StockholdersEquity" :> USD(equity)))],
                            [cik |-> ListedCik(SampleCik)])]
          \/ \E which \in {"companyfacts", "submissions"} :
                fnIn = [op |-> op, ticker |-> "DUK", cik |-> ListedCik(SampleCik),
                        fiscalPeriod |-> period, fetched |-> FetchError(which)]
    /\ fnOut = NotCalled
    /\ NoBatch

\* testSingleCompany from the settling of the Promise.all on
CallTestSingleCompany ==
    /\ fnIn.op = "testSingleCompany"
    /\ fnOut = NotCalled
    /\ fnOut' = [returned |-> testSingleCompany(fnIn.ticker, fnIn.cik,
                                                fnIn.fiscalPeriod, fnIn.fetched)]
    /\ UNCHANGED <<fnIn, limVars, batchVars>>

\* calculateROE of route.ts from the settling of the Promise.all on
CallRouteCalculateROE ==
    /\ fnIn.op = "route.calculateROE"
    /\ fnOut = NotCalled
    /\ fnOut' = [returned |-> routeCalculateROE(fnIn.ticker, fnIn.cik,
                                                fnIn.fiscalPeriod, fnIn.fetched)]
    /\ UNCHANGED <<fnIn, limVars, batchVars>>

NextSingle == CallTestSingleCompany \/ CallRouteCalculateROE

SpecSingle == InitSingle /\ [][NextSingle]_vars

----------------------------------------------------------------------------
(* The two fetches of one company: the identifier in their URLs *)

\* company numbers of one to ten digits
CikNumbers == {1, 42, 17797, 320193, 1018724, 1234567890}

\* every form of the identifier of company n: the number, and its decimal
\* notation behind no zeros, or behind as many as pad it to ten characters
\* or up to MaxExtraZeros more
FormsOf(n) ==
    {JsNumber(n)}
    \cup {DigitString(z, n) : z \in 0..(cikWidth - NumDigits(n) + MaxExtraZeros)}

InitIdentifier ==
    /\ clock = Epoch
    /\ limiters = [i \in Insts |-> NoLimiter]
    /\ callers = [c \in CallerIds |-> IdleCaller]
    /\ grantLog = NoGrants
    /\ slack = 0
    /\ wiring = Unwired
    /\ \E n \in CikNumbers : \E cik \in FormsOf(n) :
          fnIn = [op |-> "fetchCompany", cik |-> cik]
    /\ fnOut = NotCalled
    /\ NoBatch

\* fetchCompanyFacts(cik) and fetchCompanySubmissions(cik) up to their call
\* of fetch(url): the identifier each one puts into its URL
CallFetchCompany ==
    /\ fnIn.op = "fetchCompany"
    /\ fnOut = NotCalled
    /\ fnOut' = [facts |-> factsCik(fnIn.cik),
                 submissions |-> submissionsCik(fnIn.cik)]
    /\ UNCHANGED <<fnIn, limVars, batchVars>>

SpecIdentifier == InitIdentifier /\ [][CallFetchCompany]_vars

----------------------------------------------------------------------------
(* The filings client: SECApiClient.fetch *)

MaxFetches == 2       \* calls of fetch that one caller makes, one after another
MaxClientTicks == 8   \* the clock of the client scenario

\* One caller's call of fetch(url). phase "acquiring": in await
\* this.rateLimiter.acquire(); "requested": the GET is under way; "returned":
\* response.json() was returned; "failed": the error was thrown to the caller.
\* gets, grants: the GETs issued and the grants obtained by the call in
\* hand; calls: the calls made so far.
NoRequest == [phase |-> "none", gets |-> 0, grants |-> 0, calls |-> 0]

\* a fetch that issues its GET whether or not acquire() has returned
issueUngranted(n, granted) ==
    [n EXCEPT !.phase = "requested", !.gets = @ + 1,
              !.grants = IF granted THEN @ + 1 ELSE @]

\* fetch after await this.rateLimiter.acquire(): once acquire() has
\* returned, fetch(url, { headers }) is called
issueRequest(n, granted) ==
    IF granted
    THEN [n EXCEPT !.phase = "requested", !.grants = @ + 1, !.gets = @ + 1]
    ELSE n

\* fetch with the outcome of its GET: a response that is ok is returned as
\* JSON; HTTP ${status} and a transport error are thrown by the catch
settleRequest(n, outcome) ==
    IF outcome = "ok" THEN [n EXCEPT !.phase = "returned"]
    ELSE [n EXCEPT !.phase = "failed"]

\* the limiter's method from the await it sleeps in to its next await or
\* to its return
ResumeLimiter(L, pc, now) ==
    CASE pc = "sleepFull" -> EnterLimiter(L, now)
      [] pc = "sleepGap" -> [lim |-> recordRequest(L, now), pc |-> "granted", wake |-> now]
      [] OTHER -> [lim |-> L, pc |-> "granted", wake |-> now]

\* a caller calls fetch(url): acquire() runs up to its first await or returns
ClientFetch(c) ==
    /\ net[c].phase \in {"none", "returned", "failed"}
    /\ net[c].calls < MaxFetches
    /\ callers[c].pc = "idle"
    /\ \E r \in {EnterLimiter(limiters[1], clock)} :
          /\ Settle(c, 1, r)
          /\ net' = [net EXCEPT ![c] =
                        issueRequest([phase |-> "acquiring", gets |-> 0, grants |-> 0,
                                      calls |-> net[c].calls + 1],
                                     r.pc = "granted")]
    /\ UNCHANGED <<clock, slack, wiring, proc, fnVars>>

\* a timer of the limiter fires for the call of caller c
ClientResume(c) ==
    /\ callers[c].pc # "idle"
    /\ clock >= callers[c].wake
    /\ \E r \in {ResumeLimiter(limiters[1], callers[c].pc, clock)} :
          /\ Settle(c, 1, r)
          /\ net' = [net EXCEPT ![c] = issueRequest(@, r.pc = "granted")]
    /\ UNCHANGED <<clock, slack, wiring, proc, fnVars>>

\* the GET of caller c is answered, with a status that is ok or not, or the
\* transport fails
ClientResponse(c) ==
    /\ net[c].phase = "requested"
    /\ \E outcome \in {"ok", "status", "transport"} :
          net' = [net EXCEPT ![c] = settleRequest(@, outcome)]
    /\ UNCHANGED <<limVars, proc, fnVars>>

InitClient ==
    /\ clock = Epoch
    /\ \E k \in {"js", "ts"} :
          limiters = [i \in Insts |-> IF i = 1 THEN NewLimiter(k) ELSE NoLimiter]
    /\ callers = [c \in CallerIds |-> IdleCaller]
    /\ grantLog = NoGrants
    /\ slack = 0
    /\ wiring = Unwired
    /\ fnIn = NotCalled
    /\ fnOut = NotCalled
    /\ proc = NoProcessor
    /\ net = [c \in CallerIds |-> NoRequest]

NextClient ==
    \/ \E c \in Callers : ClientFetch(c)
    \/ \E c \in Callers : ClientResume(c)
    \/ \E c \in Callers : ClientResponse(c)
    \/ TickSlack(Callers, Epoch + MaxClientTicks * TickMs)

SpecClient == InitClient /\ [][NextClient]_vars

----------------------------------------------------------------------------
(* Backoff: RateLimiter.handleError *)

\* Math.pow(2, attempt) * 1000 and the cap maxBackoffTime
backoffBase == 1000
maxBackoffTime == 30000

MaxAttempt == 6       \* the largest attempt number passed
MaxBackoffTicks == 34 \* the clock stops this many seconds after the call
MaxRecorded == 2      \* timestamps the limiter holds when handleError is called

\* new Error('Attempt number must be non-negative')
NegativeAttemptError == [ok |-> FALSE, error |-> "Attempt number must be non-negative"]

\* a backoff without the cap
backoffUncapped(attempt) == (2 ^ attempt) * backoffBase

\* actualBackoffTime = Math.min(Math.pow(2, attempt) * 1000, maxBackoffTime)
actualBackoffTime(attempt) == Min((2 ^ attempt) * backoffBase, maxBackoffTime)

\* the limiter with k requests recorded, 100 ms apart, before the call
Recorded(k) ==
    [kind |-> "js",
     requestTimes |-> [j \in 1..k |-> Epoch - (k - j + 1) * delayBetweenRequests],
     lastRequestTime |-> IF k = 0 THEN 0 ELSE Epoch - delayBetweenRequests]

InitBackoff ==
    /\ clock = Epoch
    /\ \E k \in 0..MaxRecorded :
          limiters = [i \in Insts |-> IF i = 1 THEN Recorded(k) ELSE NoLimiter]
    /\ callers = [c \in CallerIds |-> IdleCaller]
    /\ grantLog = NoGrants
    /\ slack = 0
    /\ wiring = Unwired
    /\ \E attempt \in (0 - 2)..MaxAttempt :
          fnIn = [op |-> "handleError", attempt |-> attempt, limiter |-> limiters[1]]
    /\ fnOut = NotCalled
    /\ NoBatch

\* handleError(attempt) up to its throw or to its await this.sleep(...)
HandleError ==
    /\ fnIn.op = "handleError"
    /\ fnOut = NotCalled
    /\ callers[1].pc = "idle"
    /\ IF fnIn.attempt < 0
       THEN /\ fnOut' = NegativeAttemptError @@ [at |-> clock]
            /\ UNCHANGED callers
       ELSE /\ callers' = [callers EXCEPT ![1] =
                              [pc |-> "backoff",
                               wake |-> clock + actualBackoffTime(fnIn.attempt),
                               inst |-> 1]]
            /\ UNCHANGED fnOut
    /\ UNCHANGED <<clock, limiters, grantLog, slack, wiring, fnIn, batchVars>>

\* the timer of the sleep fires: handleError returns
BackoffEnd ==
    /\ callers[1].pc = "backoff"
    /\ clock >= callers[1].wake
    /\ callers' = [callers EXCEPT ![1] = IdleCaller]
    /\ fnOut' = [ok |-> TRUE, at |-> clock]
    /\ UNCHANGED <<clock, limiters, grantLog, slack, wiring, fnIn, batchVars>>

\* a second passes while the call sleeps; the timer may fire late
BackoffTick ==
    /\ callers[1].pc = "backoff"
    /\ clock + backoffBase <= Epoch + MaxBackoffTicks * backoffBase
    /\ clock' = clock + backoffBase
    /\ UNCHANGED <<limiters, callers, grantLog, slack, wiring, nonLimVars>>

NextBackoff == HandleError \/ BackoffEnd \/ BackoffTick

SpecBackoff == InitBackoff /\ [][NextBackoff]_vars

----------------------------------------------------------------------------
(* The statistics of the results of a batch *)

MaxSuccesses == 3     \* successes in the results
MaxFailures == 2      \* failures in the results

RatioNums == {0 - 1, 0, 1, 3}
RatioDens == {1, 2, 4}

\* a success with the ratio num / den
Success(num, den) ==
    [ticker |-> "DUK", roe_calculation |-> [num |-> num, den |-> den]]

\* a failure
Failure == [ticker |-> "AEE", error |-> "Invalid equity data - equity is zero or negative"]

SuccessPool == {Success(num, den) : num \in RatioNums, den \in RatioDens}

InitStats ==
    /\ clock = Epoch
    /\ limiters = [i \in Insts |-> NoLimiter]
    /\ callers = [c \in CallerIds |-> IdleCaller]
    /\ grantLog = NoGrants
    /\ slack = 0
    /\ wiring = Unwired
    /\ \E successful \in SeqsUpTo(SuccessPool, MaxSuccesses),
          failed \in SeqsUpTo({Failure}, MaxFailures) :
          fnIn = [op |-> "calculateSummaryStatistics",
                  results |-> [successful |-> successful, failed |-> failed]]
    /\ fnOut = NotCalled
    /\ NoBatch

CallCalculateSummaryStatistics ==
    /\ fnIn.op = "calculateSummaryStatistics"
    /\ fnOut = NotCalled
    /\ fnOut' = [returned |-> calculateSummaryStatistics(fnIn.results)]
    /\ UNCHANGED <<fnIn, limVars, batchVars>>

SpecStats == InitStats /\ [][CallCalculateSummaryStatistics]_vars

----------------------------------------------------------------------------
(* Claims about the batch orchestrator *)

\* the document served for the utility has no calculable ROE
DocFails(utility) ==
    ~tryCalculateROE(utility.cik, fiscalPeriod,
                     Fetched([facts |-> Served(utility.cik)],
                             [cik |-> utility.cik])).ok

\* the calculation of the k-th utility of the run fails
Failing(k) == ~proc.answered[k] \/ DocFails(proc.utilities[k])

\* how many elements of the sequence s satisfy Test
Count(s, Test(_)) == Cardinality({k \in 1..Len(s) : Test(s[k])})

\* the success and the failure records of a utility in the lists `lists`
Successes(lists, utility) ==
    LET its(result) == result.utility_info = utility
    IN  Count(lists.successful, its)
Failures(lists, utility) ==
    LET its(error) == error.ticker = utility.ticker /\ error.cik = utility.cik
    IN  Count(lists.failed, its)

\* the lists hold N - K success records and K failure records, one record
\* for each utility of the run, a failure record exactly for the failing ones
Tallied(lists) ==
    LET N == Len(proc.utilities)
        K == Cardinality({k \in 1..N : Failing(k)})
    IN  /\ Len(lists.successful) = N - K
        /\ Len(lists.failed) = K
        /\ \A k \in 1..N :
              /\ Successes(lists, proc.utilities[k]) = IF Failing(k) THEN 0 ELSE 1
              /\ Failures(lists, proc.utilities[k]) = IF Failing(k) THEN 1 ELSE 0

\* C1: after a run over N companies of which K have a failing calculation
\* the accumulated outcome holds N-K success records and K failure records,
\* every company is in exactly one of the two lists, and the summary that
\* the run writes says total_processed = successful_calculations +
\* failed_calculations = N. (The quick test returns the lists of its one
\* batch and writes no summary.)
C1_BatchTally ==
    proc.pc = "complete" =>
        /\ Tallied(proc.results)
        /\ proc.mode = "quick" => Tallied(proc.batchResults)
        /\ proc.mode = "full" =>
              /\ proc.summary.total_processed = Len(proc.utilities)
              /\ proc.summary.total_processed =
                    proc.summary.successful_calculations
                    + proc.summary.failed_calculations
              /\ proc.summary.successful_calculations = Len(proc.results.successful)
              /\ proc.summary.failed_calculations = Len(proc.results.failed)

\* a full run over three companies, in two batches, has completed: the second
\* company failed, the other two are success records, the third one first
C1_Witness ==
    /\ proc.pc = "complete" /\ proc.mode = "full" /\ proc.batchSize = 2
    /\ Len(proc.utilities) = 3
    /\ Failing(2) /\ ~Failing(1) /\ ~Failing(3)
    /\ Len(proc.results.successful) = 2 /\ Len(proc.results.failed) = 1
    /\ proc.results.successful[1].utility_info = proc.utilities[3]
    /\ proc.summary.total_processed = 3

\* every utility of the run has its record
AllProcessed ==
    Len(proc.results.successful) + Len(proc.results.failed) = Len(proc.utilities)

\* each calculation that has failed so far has its failure record
FailuresRecorded ==
    \A k \in 1..Len(proc.answered) :
       Failing(k) => Failures(proc.results, proc.utilities[k]) = 1

\* C2: an error of one company's calculation (network failure, no tag, no
\* period, invalid equity) becomes a failure record in processUtilityROE and
\* never leaves processBatch; the companies after it are still processed and
\* the batch completes, whatever the outcomes of the companies are.
C2_FailuresDoNotHaltBatch ==
    /\ [](proc.thrower # "processBatch")
    /\ []FailuresRecorded
    /\ [](proc.pc \in {"gate", "calc", "pause"} =>
             <>(AllProcessed /\ proc.pc \in {"complete", "raised"}))

\* the first of two companies failed, the second one was processed after it
\* and the run completed
C2_Witness ==
    /\ proc.pc = "complete"
    /\ Len(proc.utilities) = 2
    /\ Failing(1) /\ ~Failing(2)
    /\ Failures(proc.results, proc.utilities[1]) = 1
    /\ Successes(proc.results, proc.utilities[2]) = 1

\* where the utility with this ticker stands in the master list of the run
InputPosition(ticker) ==
    CHOOSE k \in 1..Len(proc.utilities) : proc.utilities[k].ticker = ticker

\* the tickers are in the order of the master list
InInputOrder(tickers) ==
    \A a, b \in 1..Len(tickers) :
       a < b => InputPosition(tickers[a]) < InputPosition(tickers[b])

\* C20: in the outcome that processBatchROE returns the failure list is in
\* the order of the input list and the success list is in the order in which
\* the successes were accumulated, which is the order of the input list:
\* neither list is reordered once it is built.
C20_ListsInInputOrder ==
    proc.pc = "complete" /\ proc.mode = "full" =>
        /\ InInputOrder([k \in 1..Len(proc.results.failed) |->
                            proc.results.failed[k].ticker])
        /\ InInputOrder([k \in 1..Len(proc.results.successful) |->
                            proc.results.successful[k].utility_info.ticker])

\* the utilities whose calculation has started and has no record yet
Running ==
    {k \in 1..Len(proc.utilities) :
        /\ proc.pc = "calc" /\ k <= proc.cur
        /\ Successes(proc.results, proc.utilities[k])
           + Failures(proc.results, proc.utilities[k]) = 0}

\* the utilities before the one in hand have their records, no other has
RecordedBefore(k) ==
    \A j \in 1..Len(proc.utilities) :
       Successes(proc.results, proc.utilities[j])
       + Failures(proc.results, proc.utilities[j]) = IF j < k THEN 1 ELSE 0

\* exactly the first n utilities have their records
AllRecordedUpTo(n) == RecordedBefore(n + 1)

\* the call of the limiter by caller c returns in this step, granted now
GrantedNow(c, i) ==
    /\ callers'[c].pc = "idle"
    /\ limiters'[i].lastRequestTime = clock
    /\ limiters'[i].requestTimes # <<>>
    /\ limiters'[i].requestTimes[Len(limiters'[i].requestTimes)] = clock

\* a step of the run, as far as the gate and the fetches of the utility in
\* hand go: processBatch calls waitForSlot when it takes a utility up, the
\* call returns with a grant recorded at that time, calculateROE starts only
\* after it has returned, and a request is answered only after the acquire()
\* of its fetch has returned
GatedStep ==
    /\ (proc'.pc = "gate" /\ (proc.pc # "gate" \/ proc'.cur # proc.cur)) =>
          \/ callers'[1].pc # "idle" /\ callers'[1].inst = wiring.gate
          \/ GrantedNow(1, wiring.gate)
    /\ (proc.pc = "gate" /\ callers[1].pc # "idle" /\ callers'[1].pc = "idle") =>
          GrantedNow(1, wiring.gate)
    /\ (proc.pc = "gate" /\ proc'.pc = "calc") =>
          /\ callers[1].pc = "idle"
          /\ \A c \in {2 * proc.cur, 2 * proc.cur + 1} :
                /\ net[c] = "none" /\ net'[c] = "asked"
                /\ callers'[c].pc # "idle" \/ GrantedNow(c, wiring.client)
    /\ \A c \in CallerIds \ {1} :
          /\ (callers[c].pc # "idle" /\ callers'[c].pc = "idle") =>
                GrantedNow(c, wiring.client)
          /\ (net[c] = "asked" /\ net'[c] \in {"ok", "done"}) => callers[c].pc = "idle"

\* C21: during a batch at most one company is running at any time: the
\* calculation of the next company does not start before the previous one
\* has its success or failure record, and the network calls of a company
\* start only after a grant of the rate limiter obtained for that company.
C21_OneCompanyAtATime ==
    /\ [](Cardinality(Running) <= 1)
    /\ [](proc.pc \in {"gate", "calc"} => RecordedBefore(proc.cur))
    /\ [][GatedStep]_vars

\* the second company of a batch is being calculated, after the gate made
\* its call wait; the first one has its record
C21_Witness ==
    /\ proc.pc = "calc" /\ proc.cur = 2 /\ proc.batchSize >= 2
    /\ Running = {2}
    /\ Len(proc.results.successful) + Len(proc.results.failed) = 1
    /\ clock > Epoch
    /\ limiters[wiring.gate].lastRequestTime > Epoch

\* the master list could not be loaded
LoadFailed == proc.thrower = "loadMasterUtilityList"

\* nothing of a run has happened: no utility taken up, no request made, no
\* grant of a limiter, no record, no file
NothingDone ==
    /\ proc.utilities = <<>> /\ proc.cur = 0 /\ proc.answered = <<>>
    /\ proc.results = EmptyLists /\ proc.batchResults = EmptyLists
    /\ proc.summary = NoSummary
    /\ proc.written = "none"
    /\ net = NoNet
    /\ grantLog = NoGrants

\* C23: when the master list cannot be loaded processBatchROE raises an
\* error to its caller: no company is processed, no result file is written
\* and no outcome is returned; in every other run the batch goes on until
\* every company of the list has been processed.
C23_LoadFailureOrCompletion ==
    /\ [](LoadFailed => proc.pc = "raised" /\ NothingDone)
    /\ [](proc.mode = "full" /\ proc.pc # "constructed" /\ ~LoadFailed =>
             <>(/\ Len(proc.utilities) = Len(proc.list)
                /\ AllProcessed
                /\ proc.pc \in {"complete", "raised"}))

\* the list of two companies could not be loaded: the run has raised
C23_Witness ==
    /\ LoadFailed /\ proc.mode = "full" /\ Len(proc.list) = 2
    /\ proc.pc = "raised"

\* the two fetches of the k-th calculation
FetchesOf(k) == {2 * k, 2 * k + 1}

\* the record of the k-th utility is a failure record with the error of a fetch
FailedByFetch(k) ==
    /\ Successes(proc.results, proc.utilities[k]) = 0
    /\ \E j \in 1..Len(proc.results.failed) :
          /\ proc.results.failed[j].ticker = proc.utilities[k].ticker
          /\ proc.results.failed[j].error_message.cause.error = "API request failed"

\* the record of the k-th utility was made from the documents served
MadeFromDocuments(k) ==
    IF DocFails(proc.utilities[k])
    THEN /\ Successes(proc.results, proc.utilities[k]) = 0
         /\ \E j \in 1..Len(proc.results.failed) :
               /\ proc.results.failed[j].ticker = proc.utilities[k].ticker
               /\ proc.results.failed[j].error_message.cause.error # "API request failed"
    ELSE Successes(proc.results, proc.utilities[k]) = 1

\* the calculation in hand settles in this step
Settles == Len(proc'.answered) = Len(proc.answered) + 1

\* C25: within one calculation the fetch of the facts and the fetch of the
\* submissions are issued together, neither waiting for the other; the
\* resolution of the tags and the selection of the period start only after
\* both have completed; when one of the two fails the calculation fails and
\* gives no result.
C25_BothFetchesBeforeSelection ==
    /\ [](\A k \in 1..MaxCompanies : (net[2 * k] = "none") <=> (net[2 * k + 1] = "none"))
    /\ [][(proc.pc = "gate" /\ proc'.pc = "calc") =>
             \A c \in FetchesOf(proc.cur) : net[c] = "none" /\ net'[c] = "asked"]_vars
    /\ [][Settles /\ proc'.answered[proc.cur] =>
             \E c \in FetchesOf(proc.cur) :
                /\ net[c] = "ok"
                /\ \A d \in FetchesOf(proc.cur) \ {c} : net[d] = "asked"]_vars
    /\ [](\A k \in 1..Len(proc.answered) :
             IF proc.answered[k] THEN MadeFromDocuments(k) ELSE FailedByFetch(k))

\* the first company's facts were served and its submissions fetch failed:
\* the company has a failure record; the second company got both documents
\* and has a result
C25_Witness ==
    /\ Len(proc.answered) = 2
    /\ ~proc.answered[1] /\ proc.answered[2]
    /\ FailedByFetch(1)
    /\ proc.results.failed[1].error_message.cause = FetchError("submissions")
    /\ Successes(proc.results, proc.utilities[2]) = 1

\* the batch in hand of a full run is a batch of the partition of the list
\* into consecutive batches of batchSize utilities: it starts at a multiple
\* of batchSize and ends batchSize utilities later or with the list
BatchInHand ==
    /\ proc.i % proc.batchSize = 0
    /\ proc.i < Len(proc.utilities)
    /\ proc.batchEnd = Min(proc.i + proc.batchSize, Len(proc.utilities))
    /\ proc.i < proc.cur /\ proc.cur <= proc.batchEnd

\* the step ends the batch in hand: its last utility gets its record
EndsBatch == Settles /\ proc.cur = proc.batchEnd

\* a step of a full run, as far as the batches and the pauses go: the
\* utilities are taken up one by one in the order of the list; after the
\* last utility of a batch the run pauses for batchPause when utilities
\* are left and goes on to save when none is left; the next batch starts
\* when the pause is over, where the batch before it ended
BatchStep ==
    /\ proc'.cur # proc.cur => proc'.cur = proc.cur + 1
    /\ EndsBatch =>
          IF proc.batchEnd < Len(proc.utilities)
          THEN proc'.pc = "pause" /\ proc'.wake = clock + batchPause
          ELSE proc'.pc = "saving"
    /\ proc'.pc = "pause" /\ proc.pc # "pause" => EndsBatch
    /\ proc.pc = "pause" /\ proc'.pc # "pause" =>
          /\ clock >= proc.wake
          /\ proc'.pc = "gate"
          /\ proc'.i = proc.batchEnd /\ proc'.cur = proc.batchEnd + 1
    /\ proc'.i # proc.i =>
          /\ proc'.i = proc.i + proc.batchSize
          /\ proc.pc = "pause" \/ (EndsBatch /\ proc'.pc = "saving")
    /\ (Settles /\ ~EndsBatch) => proc'.pc = "gate" /\ proc'.i = proc.i

\* C26: processBatchROE splits the list into consecutive batches of
\* batchSize companies, of which only the last may be shorter; each company
\* is in exactly one batch and the batches run in the order of the list; the
\* fixed pause follows every batch except the last one.
C26_BatchesAndPauses ==
    /\ [](proc.mode = "full" /\ proc.pc \in {"gate", "calc"} => BatchInHand)
    /\ [](proc.mode = "full" /\ proc.pc = "pause" =>
             /\ proc.batchEnd < Len(proc.utilities)
             /\ proc.batchEnd = proc.i + proc.batchSize
             /\ AllRecordedUpTo(proc.batchEnd))
    /\ [](proc.mode = "full" /\ proc.pc = "saving" => AllRecordedUpTo(Len(proc.list)))
    /\ [][proc.mode = "full" /\ proc.pc # "constructed" => BatchStep]_vars

\* three companies in batches of two: the run pauses after the first batch,
\* with the third company left
C26_Witness ==
    /\ proc.mode = "full" /\ proc.batchSize = 2 /\ Len(proc.utilities) = 3
    /\ proc.pc = "pause" /\ proc.i = 0 /\ proc.batchEnd = 2
    /\ proc.wake = clock + batchPause

----------------------------------------------------------------------------
(* Claims about the rate limiter *)

\* the timestamps of instance i inside the trailing window that ends now
InWindow(i) == FilterRecent(limiters[i].requestTimes, clock, timeWindow)

\* C3: on one limiter instance no trailing 1000 ms window ever holds more
\* than 10 recorded request timestamps, however the calls interleave.
C3_WindowHoldsAtMostN == \A i \in Insts : Len(InWindow(i)) <= maxRequests

\* C4: any two consecutive grants of one shared limiter instance are at
\* least 100 ms apart, also when several calls are outstanding at once.
C4_GrantsSpaced == grantLog.gap = -1 \/ grantLog.gap >= minDelay

\* C5: k calls issued strictly one after another on a fresh limiter take at
\* least (k-1)*100 ms from the first grant to the last; 30 calls take at
\* least 2900 ms.
C5_SequentialSpacing ==
    /\ grantLog.count > 0 =>
          grantLog.last - grantLog.first >= (grantLog.count - 1) * minDelay
    /\ grantLog.count = 30 => grantLog.last - grantLog.first >= 2900

\* 30 sequential calls were granted in exactly 2900 ms
C5_Witness == grantLog.count = 30 /\ grantLog.last - grantLog.first = 2900

\* the limiter instances that components hold
Held == {wiring.gate, wiring.client} \cup {wiring.req[r] : r \in Requests}

\* C6: every component that draws on the upstream budget holds the same
\* limiter instance (the batch gate and the batch's filings client; the
\* filings clients of requests served at the same time), and so the grants
\* of the whole process are at least 100 ms apart.
C6_OneSharedInstance ==
    /\ Cardinality(Held \ {0}) <= 1
    /\ grantLog.gap = -1 \/ grantLog.gap >= delayBetweenRequests

\* the trailing window of instance 1 holds N timestamps
WindowFull == Len(InWindow(1)) >= maxRequests

\* the wait of a call that finds the window full
FullWait == timeWindow - (clock - SeqMin(InWindow(1))) + minDelay

\* a step of the limiter, as far as a full window goes: a call that finds
\* the window full starts to wait, for FullWait, and nothing is granted to
\* it; a call that waits for the window wakes up no earlier than that, and
\* when it wakes up it looks at the window as it is then: it is admitted
\* only when the window has room and waits again when it has none
FullWindowStep ==
    /\ \A c \in Callers :
          /\ (callers'[c].pc = "sleepFull" /\ callers'[c] # callers[c]) =>
                /\ WindowFull
                /\ callers[c].pc \in {"idle", "sleepFull"}
                /\ callers'[c].wake = clock + FullWait
          /\ (callers[c].pc = "sleepFull" /\ callers'[c] # callers[c]) =>
                /\ clock >= callers[c].wake
                /\ callers'[c].pc # "sleepFull" => ~WindowFull
          /\ (callers[c].pc = "idle" /\ callers'[c].pc \in {"sleepGap", "sleepMin"}) =>
                ~WindowFull
    /\ (grantLog'.count > grantLog.count /\ callers' = callers) => ~WindowFull

\* C24: a call of acquire() that finds N timestamps in the 1-second window
\* suspends its caller for 1000 ms - (now - oldest timestamp of the window)
\* + M; after the wait it evaluates the window again, with a fresh reading
\* of the clock, and it is granted only when the window then has room.
C24_FullWindowWaitsAndRechecks == [][FullWindowStep]_vars

----------------------------------------------------------------------------
(* Claims about the tag resolver *)

Called(op) == fnIn.op = op /\ fnOut # NotCalled

\* the document has a non-empty USD series for the tag
NonEmptySeries(facts, tag) == facts[tag].kind = "usd" /\ facts[tag].data # <<>>

\* the positions of the candidates with a non-empty series
Usable(facts, tagSequence) ==
    {k \in 1..Len(tagSequence) : NonEmptySeries(facts, tagSequence[k])}

\* C7: the resolver returns the first candidate, in list order, that has a
\* non-empty USD series; absent candidates and candidates with an empty
\* series are skipped.
C7_FirstNonEmptyCandidate ==
    Called("extractFinancialData") /\ Usable(fnIn.facts, fnIn.tagSequence) # {} =>
        LET tag == fnIn.tagSequence[SetMin(Usable(fnIn.facts, fnIn.tagSequence))]
        IN  /\ fnOut.ok
            /\ fnOut.tag = <<"us-gaap", tag>>
            /\ fnOut.data = fnIn.facts[tag].data

\* C8: when no candidate has a usable (non-empty USD) series the resolver
\* fails with an error that names the label and the whole candidate list.
C8_FailsWhenNoneUsable ==
    Called("extractFinancialData") /\ Usable(fnIn.facts, fnIn.tagSequence) = {} =>
        /\ ~fnOut.ok
        /\ fnOut.label = fnIn.label
        /\ fnOut.tags = fnIn.tagSequence

----------------------------------------------------------------------------
(* Claims about the period selector *)

Elems(s) == {s[k] : k \in 1..Len(s)}

Tier1(o, y) == o.start = Jan1(y) /\ o.end = Dec31(y)
Tier2(o, y) == o.end = Dec31(y)
Tier3(o, period) ==
    \/ o.fy # 0 /\ o.fp = period
    \/ period = "FY" /\ o.end # NullDate /\ o.end.md = "12-31"

\* C9: annual, target year given, some observation covers the whole target
\* year: the selector returns such an observation, and none of them was
\* filed later than the one returned.
C9_LatestFiledFullYear ==
    LET full == {o \in Elems(fnIn.dataArray) : Tier1(o, fnIn.targetYear)}
    IN  /\ Called("getMostRecentFiling")
        /\ fnIn.fiscalPeriod = "FY" /\ fnIn.targetYear # 0
        /\ full # {}
        => /\ fnOut.ok
           /\ fnOut.item \in full
           /\ \A o \in full : o.filed <= fnOut.item.filed

\* two full-year observations of the target year, the later filed one
\* behind the other in the array, and the later filed one returned
C9_Witness ==
    /\ Called("getMostRecentFiling")
    /\ fnIn.fiscalPeriod = "FY" /\ fnIn.targetYear = 2024
    /\ Len(fnIn.dataArray) = 2
    /\ Tier1(fnIn.dataArray[1], 2024) /\ Tier1(fnIn.dataArray[2], 2024)
    /\ fnIn.dataArray[1].filed < fnIn.dataArray[2].filed
    /\ fnOut.ok /\ fnOut.item = fnIn.dataArray[2]

\* C10: the observation returned satisfies the tier that chose it, and when
\* tiers 1 and 2 match nothing the selector goes on to tier 3: it fails
\* only when no observation satisfies tier 3 either.
C10_ResultSatisfiesItsTier ==
    LET data == Elems(fnIn.dataArray)
        y == fnIn.targetYear
        yearly == fnIn.fiscalPeriod = "FY" /\ y # 0
        any1 == yearly /\ \E o \in data : Tier1(o, y)
        any2 == yearly /\ \E o \in data : Tier2(o, y)
    IN  Called("getMostRecentFiling") =>
        /\ fnOut.ok =>
              /\ fnOut.item \in data
              /\ any1 => Tier1(fnOut.item, y)
              /\ ~any1 /\ any2 => Tier2(fnOut.item, y)
              /\ ~any1 /\ ~any2 => Tier3(fnOut.item, fnIn.fiscalPeriod)
        /\ ~fnOut.ok =>
              /\ ~any1 /\ ~any2
              /\ \A o \in data : ~Tier3(o, fnIn.fiscalPeriod)
              /\ fnOut.period = fnIn.fiscalPeriod

\* annual with a target year, nothing of that year in the series, and an
\* observation chosen by its fiscal year and period label
C10_Witness ==
    /\ Called("getMostRecentFiling")
    /\ fnIn.fiscalPeriod = "FY" /\ fnIn.targetYear = 2024
    /\ \A o \in Elems(fnIn.dataArray) : ~Tier2(o, 2024)
    /\ fnOut.ok /\ fnOut.item.fy # 0 /\ fnOut.item.fp = "FY"
    /\ fnOut.item.end = Jun30(2024)

\* the observations that tier 3 keeps: fiscal year and period label, or for
\* the annual period, when none has them, every one that ends on a December 31
Survivors(dataArray, period) ==
    LET labelled == {o \in Elems(dataArray) : o.fy # 0 /\ o.fp = period}
    IN  IF labelled = {} /\ period = "FY"
        THEN {o \in Elems(dataArray) : o.end # NullDate /\ o.end.md = "12-31"}
        ELSE labelled

\* the call was decided by tier 3
ReachedTier3 ==
    /\ Called("getMostRecentFiling")
    /\ ~(/\ fnIn.fiscalPeriod = "FY" /\ fnIn.targetYear # 0
         /\ \E o \in Elems(fnIn.dataArray) : Tier2(o, fnIn.targetYear))

\* C11: in tier 3 the observation returned is a survivor, no survivor has a
\* larger fiscal year (compared where both have one), no survivor of the
\* same fiscal year (or, like it, without one) was filed later; without
\* survivors the selector fails with an error naming the fiscal period.
C11_Tier3TakesLatestYearThenFiling ==
    LET kept == Survivors(fnIn.dataArray, fnIn.fiscalPeriod)
    IN  ReachedTier3 =>
        IF kept = {}
        THEN ~fnOut.ok /\ fnOut.period = fnIn.fiscalPeriod
        ELSE /\ fnOut.ok
             /\ fnOut.item \in kept
             /\ \A o \in kept :
                   /\ o.fy # 0 /\ fnOut.item.fy # 0 => o.fy <= fnOut.item.fy
                   /\ o.fy = fnOut.item.fy => o.filed <= fnOut.item.filed

----------------------------------------------------------------------------
(* Claims about the calculator *)

\* the call had both documents and found both series
Calculated ==
    /\ Called("calculateROE")
    /\ fnIn.fetched.ok
    /\ fnOut.targetYear # 0 - 1

\* the series of the document the call had
IncomeOf(call) == call.fetched.companyFacts.facts["NetIncomeLoss"].data
EquityOf(call) == call.fetched.companyFacts.facts["StockholdersEquity"].data

\* the observations the selector takes for the year that was logged
SelectedIncome == getMostRecentFiling(IncomeOf(fnIn), fnIn.fiscalPeriod, fnOut.targetYear)
SelectedEquity == getMostRecentFiling(EquityOf(fnIn), fnIn.fiscalPeriod, fnOut.targetYear)

BothSelected == Calculated /\ SelectedIncome.ok /\ SelectedEquity.ok

\* C12: whenever the selected equity value is <= 0 the calculation fails
\* with the invalid-equity error and there is no result, whatever the income
\* is; a negative income over a positive equity gives a result, with a
\* negative ratio.
C12_NonPositiveEquityIsInvalid ==
    BothSelected =>
        /\ SelectedEquity.item.val <= 0 =>
              /\ ~fnOut.returned.ok
              /\ fnOut.returned.cause = InvalidEquityError(SelectedEquity.item.val)
        /\ SelectedEquity.item.val > 0 /\ SelectedIncome.item.val < 0 =>
              /\ fnOut.returned.ok
              /\ fnOut.returned.result.roe_calculation.num < 0
              /\ fnOut.returned.result.roe_calculation.den > 0

\* a loss over an equity of zero: no result, the invalid-equity error
C12_Witness ==
    /\ BothSelected
    /\ SelectedEquity.item.val = 0 /\ SelectedIncome.item.val < 0
    /\ ~fnOut.returned.ok
    /\ fnOut.returned.cause.error = "Invalid equity value"

\* the hundredths of a percentage: whole part, point, two digits, '%'
Hundredths(negative, n) ==
    (IF negative THEN "-" ELSE "") \o ToString(n \div 100) \o "."
    \o ToString((n % 100) \div 10) \o ToString(n % 10) \o "%"

\* n hundredths is the nearest to num / den * 100 (den > 0), the larger in
\* magnitude of the two when two are equally near
NearestHundredths(n, num, den) ==
    LET a == IF num < 0 THEN 0 - num ELSE num
    IN  /\ (2 * n - 1) * den <= 2 * a * 10000
        /\ 2 * a * 10000 < (2 * n + 1) * den

\* the hundredths next to num / den * 100 from below and from above
Neighbours(num, den) ==
    LET a == IF num < 0 THEN 0 - num ELSE num
    IN  {(a * 10000) \div den, (a * 10000) \div den + 1}

\* C13: the ratio of a result is the selected income over the selected
\* equity, unrounded, and its percentage is the ratio times 100 rounded to
\* two decimals, followed by '%'; 2,854,000,000 over 32,456,000,000 gives
\* "8.79%".
C13_RatioExactPercentageRounded ==
    Calculated /\ fnOut.returned.ok =>
        LET roe == fnOut.returned.result.roe_calculation
        IN  /\ roe.num = SelectedIncome.item.val
            /\ roe.den = SelectedEquity.item.val
            /\ fnOut.returned.result.net_income.value = roe.num
            /\ fnOut.returned.result.stockholders_equity.value = roe.den
            /\ \E n \in Neighbours(roe.num, roe.den) :
                  /\ NearestHundredths(n, roe.num, roe.den)
                  /\ roe.percentage = Hundredths(roe.num < 0, n)
            /\ roe.num = 2854 /\ roe.den = 32456 => roe.percentage = "8.79%"

\* the scenario of the claim: 2854 over 32456 (millions) and "8.79%"
C13_Witness ==
    /\ Calculated /\ fnOut.returned.ok
    /\ fnOut.returned.result.roe_calculation.num = 2854
    /\ fnOut.returned.result.roe_calculation.den = 32456
    /\ fnOut.returned.result.roe_calculation.percentage = "8.79%"

\* the years the net-income series has a full-year observation of
FullYears(series) ==
    {y \in CalcYears : \E o \in Elems(series) : Tier1(o, y)}

\* C14: in annual mode the target year is 2024 when the net-income series
\* has an observation from 01-01 to 12-31 of 2024, and otherwise the largest
\* year of which it has a full-year observation.
C14_TargetYearPolicy ==
    Calculated /\ fnIn.fiscalPeriod = "FY" =>
        LET years == FullYears(IncomeOf(fnIn))
        IN  /\ defaultTargetYear \in years => fnOut.targetYear = defaultTargetYear
            /\ defaultTargetYear \notin years /\ years # {} =>
                  fnOut.targetYear = SetMax(years)

\* C15: the filing_url of a result is the archive base, the identifier
\* without leading zeros, and the accession number of the result without its
\* hyphens, in whatever form the identifier was passed in.
C15_FilingUrlUnpadded ==
    Calculated /\ fnOut.returned.ok =>
        fnOut.returned.result.filing_url =
            archiveBase \o ToString(fnIn.cik.digits) \o "/"
            \o removeHyphens(fnOut.returned.result.accession_number)

\* C28: whenever an annual calculation succeeds, the net-income observation
\* and the equity observation of the ratio are of the same year: the
\* coverage of both ends on December 31 of the target year.
C28_BothObservationsOfTargetYear ==
    Calculated /\ fnIn.fiscalPeriod = "FY" /\ fnOut.returned.ok =>
        /\ SelectedIncome.item.end = Dec31(fnOut.targetYear)
        /\ SelectedEquity.item.end = Dec31(fnOut.targetYear)
        /\ fnOut.returned.result.net_income.value = SelectedIncome.item.val
        /\ fnOut.returned.result.stockholders_equity.value = SelectedEquity.item.val

----------------------------------------------------------------------------
(* Claims about the filings client *)

\* the ten-character zero-padded notation of company n
Normalized(n) == DigitString(cikWidth - NumDigits(n), n)

\* C16: both fetches turn every form of a company identifier (the number,
\* the ten-character padded string, a string with more zeros in front) into
\* the same ten-character zero-padded string, and an identifier that is
\* normalized already is left as it is.
C16_IdentifierNormalized ==
    Called("fetchCompany") =>
        /\ fnOut.facts = Normalized(fnIn.cik.digits)
        /\ fnOut.submissions = Normalized(fnIn.cik.digits)
        /\ Length(fnOut.facts) = cikWidth
        /\ Text(fnOut.facts) = Text(fnOut.submissions)
        /\ factsCik(fnOut.facts) = fnOut.facts
        /\ submissionsCik(fnOut.submissions) = fnOut.submissions

\* C17: a call of fetch issues its GET only after a grant of the limiter
\* obtained for that call, it issues exactly one GET, and when the transport
\* fails or the status is not ok the call fails without a second GET.
C17_OneGetAfterGrant ==
    \A c \in Callers :
       /\ net[c].gets <= net[c].grants
       /\ net[c].gets <= 1
       /\ net[c].phase = "acquiring" => net[c].gets = 0
       /\ net[c].phase \in {"requested", "returned", "failed"} =>
             net[c].gets = 1 /\ net[c].grants = 1
       /\ net[c].phase \in {"returned", "failed"} => callers[c].pc = "idle"

\* the second call of a caller failed, after one grant and one GET, while
\* the call of another caller still waits for its grant
C17_Witness ==
    \E c, d \in Callers :
       /\ net[c].phase = "failed" /\ net[c].calls = 2
       /\ net[c].gets = 1 /\ net[c].grants = 1
       /\ net[d].phase = "acquiring" /\ callers[d].pc # "idle"

----------------------------------------------------------------------------
(* Claims about the backoff *)

\* min(2^attempt x 1000 ms, 30000 ms), attempt by attempt
ExpectedBackoff(attempt) ==
    CASE attempt = 0 -> 1000
      [] attempt = 1 -> 2000
      [] attempt = 2 -> 4000
      [] attempt = 3 -> 8000
      [] attempt = 4 -> 16000
      [] OTHER -> 30000

\* C18: handleError(attempt) waits min(2^attempt x 1000 ms, 30000 ms) for an
\* attempt >= 0 and then returns; for an attempt < 0 it fails with the
\* invalid-argument error without waiting; the timestamps and the
\* last-request time of the limiter stay as they were.
C18_BackoffCappedAndSideEffectFree ==
    fnIn.op = "handleError" =>
        /\ limiters[1] = fnIn.limiter
        /\ callers[1].pc = "backoff" =>
              /\ fnIn.attempt >= 0
              /\ callers[1].wake = Epoch + ExpectedBackoff(fnIn.attempt)
        /\ fnOut # NotCalled /\ fnIn.attempt >= 0 =>
              /\ fnOut.ok
              /\ fnOut.at >= Epoch + ExpectedBackoff(fnIn.attempt)
        /\ fnOut # NotCalled /\ fnIn.attempt < 0 =>
              /\ ~fnOut.ok
              /\ fnOut.error = "Attempt number must be non-negative"
              /\ fnOut.at = Epoch
        /\ fnIn.attempt < 0 => callers[1].pc = "idle"

\* attempt 5 of a limiter that holds timestamps: 2^5 seconds are cut to the
\* cap and the call returns after exactly 30000 ms
C18_Witness ==
    /\ fnIn.op = "handleError" /\ fnIn.attempt = 5
    /\ fnIn.limiter.requestTimes # <<>>
    /\ fnOut # NotCalled /\ fnOut.ok /\ fnOut.at = Epoch + 30000

----------------------------------------------------------------------------
(* Claims about the summary statistics *)

RECURSIVE SumTo(_, _)
SumTo(f, k) == IF k = 0 THEN 0 ELSE SumTo(f, k - 1) + f[k]

\* the least common denominator of the ratios considered
CommonDen ==
    CHOOSE d \in 1..16 :
        /\ \A x \in RatioDens : d % x = 0
        /\ \A e \in 1..(d - 1) : \E x \in RatioDens : e % x # 0

\* the successful ratios, each as a whole number of 1/CommonDen
ScaledRatios ==
    LET successful == fnIn.results.successful
    IN  [k \in 1..Len(successful) |->
            successful[k].roe_calculation.num
            * (CommonDen \div successful[k].roe_calculation.den)]

\* the fraction x is y / CommonDen / by
IsQuotient(x, y, by) == x.den > 0 /\ x.num * CommonDen * by = x.den * y

\* how many of the ratios are below y / (2 CommonDen), and how many above
Below(y) == Cardinality({k \in DOMAIN ScaledRatios : 2 * ScaledRatios[k] < y})
Above(y) == Cardinality({k \in DOMAIN ScaledRatios : 2 * ScaledRatios[k] > y})

\* y / (2 CommonDen) is the median of the ratios: the middle one of an odd
\* number, the mean of the two middle ones of an even number
IsMedian(y) ==
    LET n == Len(ScaledRatios)
    IN  IF n % 2 = 1
        THEN /\ \E k \in 1..n : 2 * ScaledRatios[k] = y
             /\ 2 * Below(y) < n /\ 2 * Above(y) < n
        ELSE \E i, j \in 1..n :
                /\ i # j /\ ScaledRatios[i] <= ScaledRatios[j]
                /\ y = ScaledRatios[i] + ScaledRatios[j]
                /\ Below(2 * ScaledRatios[i]) <= n \div 2 - 1
                /\ Above(2 * ScaledRatios[j]) <= n \div 2 - 1
                /\ n - Above(2 * ScaledRatios[i]) >= n \div 2
                /\ n - Below(2 * ScaledRatios[j]) >= n \div 2

\* C19: the statistics are taken over the ratios of the successes only: the
\* count is the number of successes, the mean their sum over the count, the
\* median the middle of them in ascending order, the minimum and the maximum
\* the least and the greatest of them, the standard deviation the root of the
\* mean squared distance from the mean (population form), and
\* min <= median <= max; with no success every statistic is 0 and the
\* computation does not fail.
C19_StatisticsOverSuccesses ==
    fnIn.op = "calculateSummaryStatistics" /\ fnOut # NotCalled =>
        LET out == fnOut.returned
            n == Len(fnIn.results.successful)
            total == SumTo(ScaledRatios, n)
            squares == [k \in 1..n |-> (n * ScaledRatios[k] - total)
                                       * (n * ScaledRatios[k] - total)]
        IN  /\ out.count = n
            /\ n = 0 =>
                  /\ out.average_roe = Zero /\ out.median_roe = Zero
                  /\ out.min_roe = Zero /\ out.max_roe = Zero
                  /\ out.std_deviation = Zero
            /\ n > 0 =>
                  /\ IsQuotient(out.average_roe, total, n)
                  /\ \E y \in (0 - 8 * CommonDen)..(8 * CommonDen) :
                        IsMedian(y) /\ IsQuotient(out.median_roe, y, 2)
                  /\ \E k \in 1..n : IsQuotient(out.min_roe, ScaledRatios[k], 1)
                  /\ \E k \in 1..n : IsQuotient(out.max_roe, ScaledRatios[k], 1)
                  /\ \A k \in 1..n :
                        /\ out.min_roe.num * CommonDen <= out.min_roe.den * ScaledRatios[k]
                        /\ out.max_roe.num * CommonDen >= out.max_roe.den * ScaledRatios[k]
                  /\ LessEq(out.min_roe, out.median_roe)
                  /\ LessEq(out.median_roe, out.max_roe)
                  /\ out.std_deviation.of.den > 0
                  /\ out.std_deviation.of.num * CommonDen * CommonDen * n * n * n
                        = out.std_deviation.of.den * SumTo(squares, n)

\* three successes out of ascending order and two failures: the count is 3
\* and the median is the middle one of the three ratios, 1/2
C19_Witness ==
    /\ fnIn.op = "calculateSummaryStatistics" /\ fnOut # NotCalled
    /\ Len(fnIn.results.failed) = 2
    /\ fnIn.results.successful = <<Success(3, 1), Success(0 - 1, 4), Success(1, 2)>>
    /\ fnOut.returned.count = 3
    /\ fnOut.returned.median_roe = Frac(1, 2)
    /\ fnOut.returned.min_roe = Frac(0 - 1, 4)
    /\ fnOut.returned.max_roe = Frac(3, 1)

----------------------------------------------------------------------------
(* Claims about the calculation of one company *)

\* a calculation of one company, by either entry, has settled
SingleSettled == Called("testSingleCompany") \/ Called("route.calculateROE")

\* what the try block of the calculation threw
OriginalError == tryCalculateROE(fnIn.cik, fnIn.fiscalPeriod, fnIn.fetched)

\* C22: outside batch mode every error of the calculation of one company
\* reaches the caller and its message holds the identity of the company, the
\* ticker and the identifier, in front of the message of the original error.
C22_ErrorsCarryCompanyIdentity ==
    SingleSettled /\ ~OriginalError.ok =>
        /\ ~fnOut.returned.ok
        /\ "ticker" \in DOMAIN fnOut.returned
        /\ fnOut.returned.ticker = fnIn.ticker
        /\ fnOut.returned.cik = fnIn.cik
        /\ fnOut.returned.cause = OriginalError

\* the web route's calculation has returned a result
RouteResult == Called("route.calculateROE") /\ fnOut.returned.ok

\* the historical series of the result and the year it ends with
History == fnOut.returned.result.historical_roe
CurrentYear == fnOut.returned.result.current_roe.fiscal_year
HistoryYears == {History[k].year : k \in 1..Len(History)}

\* the annual selection of year y from the series finds nothing
SelectionFails(series, y) ==
    \A o \in Elems(series) : ~Tier2(o, y) /\ ~Tier3(o, "FY")

\* year y is left out: a selection fails or the equity selected is <= 0
LeftOut(y) ==
    \/ SelectionFails(IncomeOf(fnIn), y)
    \/ SelectionFails(EquityOf(fnIn), y)
    \/ getMostRecentFiling(EquityOf(fnIn), "FY", y).item.val <= 0

\* C27: the historical series has at most 20 entries, at most one for a
\* year, in ascending order of the years, and only for years from
\* currentYear - 19 to currentYear; a year whose selection fails or whose
\* equity is <= 0 is left out of it, and no failure of a year makes the
\* primary calculation fail.
C27_HistoryBoundedBestEffort ==
    /\ Called("route.calculateROE") => (fnOut.returned.ok <=> OriginalError.ok)
    /\ RouteResult =>
          /\ Len(History) <= 20
          /\ \A j, k \in 1..Len(History) : j < k => History[j].year < History[k].year
          /\ \A y \in HistoryYears : CurrentYear - 19 <= y /\ y <= CurrentYear
          /\ CurrentYear # 0 =>
                \A y \in (CurrentYear - 19)..CurrentYear :
                   y \in HistoryYears <=> ~LeftOut(y)

\* an annual result of 2024 of a company whose equity at the end of 2023 was
\* negative: the series has the other 19 years of the window and not 2023
C27_Witness ==
    /\ RouteResult /\ fnIn.fiscalPeriod = "FY"
    /\ CurrentYear = 2024
    /\ Len(History) = 19
    /\ 2023 \notin HistoryYears
    /\ \E o \in Elems(EquityOf(fnIn)) : o.end = Dec31(2023) /\ o.val < 0

\* C29: every entry {year, roe} of the historical series is computed from a
\* net-income observation and an equity observation whose coverage ends in
\* that year; a year of which a series has no observation has no entry.
C29_HistoryEntriesOfTheirYear ==
    RouteResult =>
        \A k \in 1..Len(History) :
           /\ \E o \in Elems(IncomeOf(fnIn)) :
                 o.end.y = History[k].year /\ o.val = History[k].num
           /\ \E o \in Elems(EquityOf(fnIn)) :
                 o.end.y = History[k].year /\ o.val = History[k].den

\* the annual calculation by testSingleCompany has returned a result
AnnualResult ==
    Called("testSingleCompany") /\ fnIn.fiscalPeriod = "FY" /\ fnOut.returned.ok

\* the target year of the call and the net-income observation chosen for it
TargetOf(call) == TargetYear(IncomeOf(call), call.fiscalPeriod)
ChosenIncome == getMostRecentFiling(IncomeOf(fnIn), fnIn.fiscalPeriod, TargetOf(fnIn)).item

\* C30: in every successful annual result the fiscal_year reported is the
\* target year whose observations were selected, the year in which the
\* coverage of the chosen net-income observation ends, also when the chosen
\* observation comes from a later filing that restates that year.
C30_FiscalYearIsTargetYear ==
    AnnualResult =>
        /\ fnOut.returned.result.fiscal_year = TargetOf(fnIn)
        /\ fnOut.returned.result.fiscal_year = ChosenIncome.end.y

====
